---- MODULE Spec2Model ----
(***************************************************************************)
(* State-machine model of the hbf-agent core:                              *)
(*   - the firewall rule manager (internal/firewall/manager.go) driving    *)
(*     the iptables backend, with its periodic sync loop;                  *)
(*   - the service mesh manager with the static discovery backend and the  *)
(*     load balancer (internal/servicemesh);                               *)
(*   - the health checker (internal/health/checker.go).                    *)
(* Every manager method runs under the manager's mutex, so one method call *)
(* is one action.  Results of calls into the kernel or a registry (success *)
(* or failure) are inputs of the action.  Timestamps (CreatedAt, LastSeen, *)
(* LastCheck) are written but never read by the code and are left out;     *)
(* the clock is kept only because generated IDs are derived from it.       *)
(***************************************************************************)
EXTENDS Integers, Sequences, FiniteSets, TLC

VARIABLES
    now,          \* time.Now().UnixNano(), abstracted to a small counter
    ctxDone,      \* the context handed to every Start has been cancelled
    fwRules,      \* Manager.rules: ID -> Rule (the desired-state store)
    fwRunning,    \* Manager.running
    fwStopClosed, \* Manager.stopChan has been closed
    fwLoops,      \* number of live syncLoop goroutines
    fwCrashed,    \* the process panicked (close of a closed channel)
    fwMu,         \* Manager.mu: held for writing, number of read holders
    fwCall,       \* the rule manager calls in flight, one per caller, and the sync pass
    kernel,       \* the filter table: entry -> number of copies in its chain
    svc,          \* the Service objects allocated so far (index = pointer)
    smServices,   \* servicemesh Manager.services: ID -> *Service
    disc,         \* StaticDiscovery.services: name -> list of *Service
    lbStrategy,   \* config load_balance.strategy
    rrCounter,    \* RoundRobinLoadBalancer.counter
    lbList,       \* the candidate list handed to LoadBalancer.Select
    lbHist,       \* history: the candidates round robin returned, in counter order
    lcConn,       \* LeastConnLoadBalancer.connections: service ID -> count
    lcPending,    \* least-conn Selects that have chosen and not yet counted
    rrPending,    \* round-robin Selects past the atomic add that have not returned
    smRunning,    \* servicemesh Manager.running
    smStopClosed, \* servicemesh Manager.stopChan has been closed
    smLoops,      \* number of live discoveryLoop goroutines
    smCrashed,    \* the process panicked in servicemesh Manager.Stop
    chk,          \* the health Check objects allocated so far (index = pointer)
    hcChecks,     \* health Checker.checks: ID -> *Check
    hcLoops,      \* live checkLoop goroutines of each Check started by Start
    hcBgLoops,    \* live checkLoop goroutines of each Check started by AddCheck
    hcRunning,    \* health Checker.running
    hcStopClosed, \* health Checker.stopChan has been closed
    hcCrashed,    \* the process panicked in Checker.Stop
    hcStreak,     \* history: failed probes of each Check since its last success
    probes,       \* history: probe intervals elapsed for each Service's endpoint
    hcMu,         \* health Checker.mu: 0 when free, else the Check whose performCheck holds it
    hcProbe,      \* the performCheck in flight for each Check: its position and result
    cbPending,    \* callback goroutines launched by performCheck that have not run
    last,         \* history: the last operation, its result and backend calls
    opSeq         \* history: flips on every operation

fwVars == <<fwRules, fwRunning, fwStopClosed, fwLoops, fwCrashed, kernel, fwMu, fwCall>>

smLife == <<smRunning, smStopClosed, smLoops, smCrashed>>

lbVars == <<lbList, lbHist, lcConn, lcPending, rrPending>>

smVars == <<svc, smServices, disc, lbStrategy, rrCounter, smLife, lbVars>>

hcVars == <<chk, hcChecks, hcLoops, hcBgLoops, hcRunning, hcStopClosed, hcCrashed, hcStreak, probes,
           cbPending, hcMu, hcProbe>>

\* A panic in any manager ends the process.
Crashed == fwCrashed \/ smCrashed \/ hcCrashed

----------------------------------------------------------------------------
(* Bounds of the model *)

MaxClock == 1
MaxDup == 2
MaxSvcObjs == 2
MaxSelects == 2
MaxChkObjs == 2
MaxFailures == 3
MaxProbes == 3
MaxDisc == 3
MaxCands == 3
MaxLBCalls == 6
MaxConn == 2
MaxInflight == 2
MaxCallbacks == 2
MaxCallers == 2
MaxReadds == 2

----------------------------------------------------------------------------
(* Firewall: data *)

Chains == <<"INPUT", "FORWARD", "OUTPUT">>

\* Rules a caller (API request or configuration) can submit, before an ID is
\* assigned.  The first two differ only in Comment: rulesEqual treats them as
\* equal, iptables does not.
RuleInputs ==
    { [ID |-> "", Chain |-> "INPUT", Protocol |-> "tcp", Source |-> "", Dest |-> "",
       SPort |-> "", DPort |-> "80", Action |-> "ACCEPT", Comment |-> ""],
      [ID |-> "", Chain |-> "INPUT", Protocol |-> "tcp", Source |-> "", Dest |-> "",
       SPort |-> "", DPort |-> "80", Action |-> "ACCEPT", Comment |-> "web"],
      [ID |-> "", Chain |-> "OUTPUT", Protocol |-> "", Source |-> "10.0.0.1", Dest |-> "",
       SPort |-> "", DPort |-> "", Action |-> "DROP", Comment |-> ""] }

\* config.FirewallConfig.Rules: one configured rule.
CfgRules ==
    << [ID |-> "", Chain |-> "INPUT", Protocol |-> "tcp", Source |-> "", Dest |-> "",
        SPort |-> "", DPort |-> "80", Action |-> "ACCEPT", Comment |-> ""] >>

CallerIDs == {"a"}

generateRuleID(t) == "rule-" \o ToString(t)

RuleIDs == CallerIDs \cup {generateRuleID(t) : t \in 0..MaxClock}

rulesEqual(r1, r2) ==
    /\ r1.Chain = r2.Chain
    /\ r1.Protocol = r2.Protocol
    /\ r1.Source = r2.Source
    /\ r1.Dest = r2.Dest
    /\ r1.SPort = r2.SPort
    /\ r1.DPort = r2.DPort
    /\ r1.Action = r2.Action

buildRuleSpec(rule) ==
    (IF rule.Protocol # "" THEN <<"-p", rule.Protocol>> ELSE <<>>)
    \o (IF rule.Source # "" THEN <<"-s", rule.Source>> ELSE <<>>)
    \o (IF rule.Dest # "" THEN <<"-d", rule.Dest>> ELSE <<>>)
    \o (IF rule.SPort # "" THEN <<"--sport", rule.SPort>> ELSE <<>>)
    \o (IF rule.DPort # "" THEN <<"--dport", rule.DPort>> ELSE <<>>)
    \o (IF rule.Comment # "" THEN <<"-m", "comment", "--comment", rule.Comment>> ELSE <<>>)
    \o <<"-j", rule.Action>>

\* One entry of the filter table: the chain and the rule specification.
KEntry(rule) == [chain |-> rule.Chain, spec |-> buildRuleSpec(rule)]

KEntries == {KEntry(r) : r \in RuleInputs}

\* The store as the set of rules ListRules returns.
ListRules == {fwRules[i] : i \in DOMAIN fwRules}

StorePut(rules, id, rule) ==
    [i \in (DOMAIN rules) \cup {id} |-> IF i = id THEN rule ELSE rules[i]]

StoreDelete(rules, id) == [i \in (DOMAIN rules) \ {id} |-> rules[i]]

EmptyStore == [i \in {} |-> 0]

----------------------------------------------------------------------------
(* Firewall: the iptables backend *)

\* Faulty variant: ipt.Append instead of ipt.AppendUnique.
IPTAddRule_Append(rule, kern) ==
    [kern EXCEPT ![KEntry(rule)] = IF @ < MaxDup THEN @ + 1 ELSE @]

\* ipt.AppendUnique: append the entry unless an identical one exists.
IPTAddRule(rule, kern) ==
    [kern EXCEPT ![KEntry(rule)] = IF @ = 0 THEN 1 ELSE @]

\* ipt.Delete: remove one matching entry; an error when none matches or the
\* call itself fails.
IPTDeleteRule(rule, kern, callOK) ==
    IF callOK /\ kern[KEntry(rule)] > 0
    THEN [ok |-> TRUE, kernel |-> [kern EXCEPT ![KEntry(rule)] = @ - 1]]
    ELSE [ok |-> FALSE, kernel |-> kern]

\* IPTablesBackend.ListRules: always the empty list, never an error.
IPTListRules == {}

\* IPTablesBackend.Flush: ClearChain on INPUT, FORWARD, OUTPUT in this order;
\* failAt = 0: every call succeeds, failAt = k: the k-th call fails and the
\* chains before it are already cleared.
IPTFlush(kern, failAt) ==
    LET cleared == {Chains[k] : k \in {j \in 1..Len(Chains) : failAt = 0 \/ j < failAt}}
    IN [ok |-> failAt = 0,
        kernel |-> [e \in DOMAIN kern |-> IF e.chain \in cleared THEN 0 ELSE kern[e]]]

----------------------------------------------------------------------------
(* Firewall: manager operations *)

\* The record kept of the last operation: its name, argument, result, the
\* backend calls it made and, for a sync pass, whether the operation before it
\* was a sync pass too (repeat), one without a failed call (repeatClean), and
\* how many filter-table entries the pass created (repaired).
Op(op, id, err, calls) ==
    [op |-> op, id |-> id, err |-> err, calls |-> calls,
     repeat |-> FALSE, repeatClean |-> FALSE, repaired |-> 0, ret |-> 0]

Call(fn, key, ok) == [fn |-> fn, key |-> key, ok |-> ok]

NoCalls == {}

\* Faulty variant: the rule is stored before the backend call and not rolled back.
AddRuleStore_BeforeBackend(rules, rule, backendOK) ==
    StorePut(rules, rule.ID, rule)

\* The store after AddRule: the rule is inserted only after the backend call
\* succeeded; an existing entry with the same ID is overwritten.
AddRuleStore(rules, rule, backendOK) ==
    IF backendOK THEN StorePut(rules, rule.ID, rule) ELSE rules

AddRule(in, callerID, backendOK) ==
    LET id == IF callerID = "" THEN generateRuleID(now) ELSE callerID
        rule == [in EXCEPT !.ID = id]
    IN /\ ~Crashed
       /\ kernel' = IF backendOK THEN IPTAddRule(rule, kernel) ELSE kernel
       /\ fwRules' = AddRuleStore(fwRules, rule, backendOK)
       /\ last' = Op("AddRule", id, IF backendOK THEN "nil" ELSE "BackendError",
                     {Call("AddRule", id, backendOK)})
       /\ opSeq' = 1 - opSeq
       /\ UNCHANGED <<now, ctxDone, hcVars, fwRunning, fwStopClosed, fwLoops, fwCrashed, smVars, fwMu, fwCall>>

\* Faulty variant: the record is dropped before the backend call.
DeleteRuleStore_BeforeBackend(rules, id, backendOK) ==
    StoreDelete(rules, id)

\* The store after DeleteRule of a stored rule: removed only when the backend
\* call succeeded.
DeleteRuleStore(rules, id, backendOK) ==
    IF backendOK THEN StoreDelete(rules, id) ELSE rules

DeleteRule(id, callOK) ==
    /\ ~Crashed
    /\ IF id \notin DOMAIN fwRules
       THEN /\ last' = Op("DeleteRule", id, "NotFound", NoCalls)
            /\ UNCHANGED <<kernel, fwRules>>
       ELSE LET res == IPTDeleteRule(fwRules[id], kernel, callOK)
            IN /\ kernel' = res.kernel
               /\ fwRules' = DeleteRuleStore(fwRules, id, res.ok)
               /\ last' = Op("DeleteRule", id, IF res.ok THEN "nil" ELSE "BackendError",
                             {Call("DeleteRule", id, res.ok)})
    /\ opSeq' = 1 - opSeq
    /\ UNCHANGED <<now, ctxDone, hcVars, fwRunning, fwStopClosed, fwLoops, fwCrashed, smVars, fwMu, fwCall>>

\* Faulty variant: the store is replaced before the backend call.
FlushStore_BeforeBackend(rules, backendOK) == EmptyStore

\* The store after Flush: a new empty map once the backend's Flush succeeded.
FlushStore(rules, backendOK) == IF backendOK THEN EmptyStore ELSE rules

Flush(failAt) ==
    LET res == IPTFlush(kernel, failAt)
    IN /\ ~Crashed
       /\ kernel' = res.kernel
       /\ fwRules' = FlushStore(fwRules, res.ok)
       /\ last' = Op("Flush", "", IF res.ok THEN "nil" ELSE "BackendError",
                     {Call("Flush", "", res.ok)})
       /\ opSeq' = 1 - opSeq
       /\ UNCHANGED <<now, ctxDone, hcVars, fwRunning, fwStopClosed, fwLoops, fwCrashed, smVars, fwMu, fwCall>>

\* Faulty variant: the found flag is inverted.
SyncMissing_Inverted(rules, backendRules) ==
    {id \in DOMAIN rules : \E b \in backendRules : rulesEqual(rules[id], b)}

\* The rules of the store that sync finds in none of the listed backend rules.
SyncMissing(rules, backendRules) ==
    {id \in DOMAIN rules : ~\E b \in backendRules : rulesEqual(rules[id], b)}

RECURSIVE ApplyAll(_, _, _)
ApplyAll(rules, ids, kern) ==
    IF ids = {} THEN kern
    ELSE LET id == CHOOSE i \in ids : TRUE
         IN ApplyAll(rules, ids \ {id}, IPTAddRule(rules[id], kern))

\* Faulty variant: a pass that also removes the entries no stored rule asks for.
SyncKernel_Prune(rules, kern, failed) ==
    LET k == ApplyAll(rules, SyncMissing(rules, IPTListRules) \ failed, kern)
    IN [e \in DOMAIN k |->
           IF \E id \in DOMAIN rules : KEntry(rules[id]) = e THEN k[e] ELSE 0]

\* The filter table after one sync pass: backend.AddRule for every missing
\* rule; `failed` are the rules whose AddRule call returns an error (logged,
\* the pass goes on).  sync issues no other mutating backend call.
SyncKernel(rules, kern, failed) ==
    ApplyAll(rules, SyncMissing(rules, IPTListRules) \ failed, kern)

CleanCalls(o) == \A c \in o.calls : c.ok

\* Faulty variant: syncLoop returns when its iteration met an error.
LoopsAfterSync_ExitOnError(loops, failure) == IF failure THEN loops - 1 ELSE loops

\* The live syncLoops after an iteration: an error of sync(), or of a call
\* inside it, is logged and the for loop goes round.
LoopsAfterSync(loops, failure) == loops

\* Faulty variant: sync returns the error of a failed AddRule.
SyncErr_Propagate(failed) == IF failed # {} THEN "BackendError" ELSE "nil"

\* What sync returns once ListRules succeeded: a failed AddRule is logged
\* (Errorf) and the pass ends with return nil.
SyncErr(failed) == "nil"

\* One iteration of syncLoop: the ticker fired and sync() ran.
Sync(failed) ==
    LET missing == SyncMissing(fwRules, IPTListRules)
    IN /\ ~Crashed
       /\ fwLoops > 0
       /\ failed \subseteq missing
       /\ kernel' = SyncKernel(fwRules, kernel, failed)
       /\ last' = [op |-> "sync", id |-> "", err |-> SyncErr(failed),
                   calls |-> {Call("AddRule", id, id \notin failed) : id \in missing},
                   repeat |-> last.op = "sync",
                   repeatClean |-> last.op = "sync" /\ CleanCalls(last),
                   repaired |-> Cardinality({e \in KEntries : kernel'[e] > kernel[e]}),
                   ret |-> 0]
       /\ fwLoops' = LoopsAfterSync(fwLoops, failed # {})
       /\ opSeq' = 1 - opSeq
       /\ UNCHANGED <<now, ctxDone, hcVars, fwRules, fwRunning, fwStopClosed, fwCrashed, smVars, fwMu, fwCall>>

\* One iteration of syncLoop with a backend whose ListRules returns an error:
\* sync() returns it before it looks at any rule, syncLoop logs it.
SyncListError ==
    /\ ~Crashed
    /\ fwLoops > 0
    /\ last' = Op("sync", "", "ListError", {Call("ListRules", "", FALSE)})
    /\ fwLoops' = LoopsAfterSync(fwLoops, TRUE)
    /\ opSeq' = 1 - opSeq
    /\ UNCHANGED <<now, ctxDone, hcVars, fwRules, kernel, fwRunning, fwStopClosed, fwCrashed, smVars, fwMu, fwCall>>

----------------------------------------------------------------------------
(* Firewall: the manager's calls step by step, under Manager.mu *)

\* The goroutines that call the manager: the API callers and the syncLoop.
Callers == 1..MaxCallers

SyncProc == 0

Idle == [op |-> "idle"]

MuFree == [w |-> FALSE, r |-> 0]

\* The snapshot field of a call that has not taken the lock yet.
NoSnapshot == [rules |-> EmptyStore, kernel |-> [e \in KEntries |-> 0]]

\* Faulty variant: a lock that excludes nothing between readers and writers.
CanLock_WritersOnly(mu, write) == ~write \/ ~mu.w

\* sync.RWMutex: Lock waits for the writer and every reader to leave, RLock
\* waits for the writer only.
CanLock(mu, write) == IF write THEN ~mu.w /\ mu.r = 0 ELSE ~mu.w

CallFrame == <<now, ctxDone, hcVars, smVars, fwRunning, fwStopClosed, fwLoops, fwCrashed>>

\* A caller enters AddRule(rule), DeleteRule(id) or Flush(); `conc` notes that
\* an AddRule call with another ID was in flight at that moment.
CallBegin(p, op, in, id) ==
    /\ ~Crashed
    /\ fwCall[p] = Idle
    /\ fwCall' = [fwCall EXCEPT ![p] =
          [op |-> op, pc |-> "lock", rule |-> [in EXCEPT !.ID = id], id |-> id,
           ok |-> FALSE, calls |-> NoCalls,
           conc |-> /\ op = "AddRule"
                    /\ \E q \in Callers \ {p} :
                          /\ fwCall[q] # Idle
                          /\ fwCall[q].op = "AddRule"
                          /\ fwCall[q].pc = "lock"
                          /\ fwCall[q].id # id,
           pre |-> NoSnapshot]]
    /\ UNCHANGED <<CallFrame, fwRules, kernel, fwMu, last, opSeq>>

\* m.mu.Lock(); AddRule then fills in the ID of a rule that has none.
CallLock(p) ==
    LET c == fwCall[p]
        id == IF c.op = "AddRule" /\ c.id = "" THEN generateRuleID(now) ELSE c.id
    IN /\ ~Crashed
       /\ c # Idle /\ c.pc = "lock"
       /\ CanLock(fwMu, TRUE)
       /\ fwMu' = [fwMu EXCEPT !.w = TRUE]
       /\ fwCall' = [fwCall EXCEPT ![p] =
             [c EXCEPT !.pc = "backend", !.id = id, !.rule = [c.rule EXCEPT !.ID = id],
                       !.pre = [rules |-> fwRules, kernel |-> kernel]]]
       /\ UNCHANGED <<CallFrame, fwRules, kernel, last, opSeq>>

\* The backend call of the operation (none for DeleteRule of an unknown ID).
CallBackend(p, backendOK, failAt) ==
    LET c == fwCall[p]
    IN /\ ~Crashed
       /\ c # Idle /\ c.pc = "backend"
       /\ IF c.op = "AddRule"
          THEN /\ failAt = 0
               /\ kernel' = IF backendOK THEN IPTAddRule(c.rule, kernel) ELSE kernel
               /\ fwCall' = [fwCall EXCEPT ![p] =
                     [c EXCEPT !.pc = IF backendOK THEN "store" ELSE "unlock",
                               !.ok = backendOK,
                               !.calls = {Call("AddRule", c.id, backendOK)}]]
          ELSE IF c.op = "DeleteRule"
          THEN /\ failAt = 0
               /\ IF c.id \notin DOMAIN fwRules
                  THEN /\ backendOK
                       /\ kernel' = kernel
                       /\ fwCall' = [fwCall EXCEPT ![p] = [c EXCEPT !.pc = "unlock"]]
                  ELSE LET res == IPTDeleteRule(fwRules[c.id], kernel, backendOK)
                       IN /\ kernel' = res.kernel
                          /\ fwCall' = [fwCall EXCEPT ![p] =
                                [c EXCEPT !.pc = IF res.ok THEN "store" ELSE "unlock",
                                          !.ok = res.ok,
                                          !.calls = {Call("DeleteRule", c.id, res.ok)}]]
          ELSE LET res == IPTFlush(kernel, failAt)
               IN /\ backendOK = (failAt = 0)
                  /\ kernel' = res.kernel
                  /\ fwCall' = [fwCall EXCEPT ![p] =
                        [c EXCEPT !.pc = IF res.ok THEN "store" ELSE "unlock",
                                  !.ok = res.ok,
                                  !.calls = {Call("Flush", "", res.ok)}]]
       /\ UNCHANGED <<CallFrame, fwRules, fwMu, last, opSeq>>

\* The store update that follows a successful backend call.
CallStore(p) ==
    LET c == fwCall[p]
    IN /\ ~Crashed
       /\ c # Idle /\ c.pc = "store"
       /\ fwRules' = IF c.op = "AddRule" THEN AddRuleStore(fwRules, c.rule, TRUE)
                     ELSE IF c.op = "DeleteRule" THEN DeleteRuleStore(fwRules, c.id, TRUE)
                     ELSE FlushStore(fwRules, TRUE)
       /\ fwCall' = [fwCall EXCEPT ![p] = [c EXCEPT !.pc = "unlock"]]
       /\ UNCHANGED <<CallFrame, kernel, fwMu, last, opSeq>>

\* The deferred m.mu.Unlock() and the return to the caller.
CallReturn(p) ==
    LET c == fwCall[p]
    IN /\ ~Crashed
       /\ c # Idle /\ c.pc = "unlock"
       /\ fwMu' = [fwMu EXCEPT !.w = FALSE]
       /\ fwCall' = [fwCall EXCEPT ![p] = Idle]
       /\ UNCHANGED <<CallFrame, fwRules, kernel, last, opSeq>>

\* The ticker of a live syncLoop fires and sync() is entered.
SyncBegin ==
    /\ ~Crashed
    /\ fwLoops > 0
    /\ fwCall[SyncProc] = Idle
    /\ fwCall' = [fwCall EXCEPT ![SyncProc] =
          [op |-> "sync", pc |-> "lock", todo |-> {}, calls |-> NoCalls]]
    /\ UNCHANGED <<CallFrame, fwRules, kernel, fwMu, last, opSeq>>

\* m.mu.RLock()
SyncLock ==
    LET c == fwCall[SyncProc]
    IN /\ ~Crashed
       /\ c # Idle /\ c.pc = "lock"
       /\ CanLock(fwMu, FALSE)
       /\ fwMu' = [fwMu EXCEPT !.r = @ + 1]
       /\ fwCall' = [fwCall EXCEPT ![SyncProc] = [c EXCEPT !.pc = "list"]]
       /\ UNCHANGED <<CallFrame, fwRules, kernel, last, opSeq>>

\* backend.ListRules() and the comparison of every stored rule with the list.
SyncList ==
    LET c == fwCall[SyncProc]
    IN /\ ~Crashed
       /\ c # Idle /\ c.pc = "list"
       /\ fwCall' = [fwCall EXCEPT ![SyncProc] =
             [c EXCEPT !.pc = "apply",
                       !.todo = {fwRules[id] : id \in SyncMissing(fwRules, IPTListRules)}]]
       /\ UNCHANGED <<CallFrame, fwRules, kernel, fwMu, last, opSeq>>

RECURSIVE ApplyRules(_, _)
ApplyRules(rs, kern) ==
    IF rs = {} THEN kern
    ELSE LET r == CHOOSE x \in rs : TRUE
         IN ApplyRules(rs \ {r}, IPTAddRule(r, kern))

\* backend.AddRule for every rule found missing; `failed` are the IDs whose
\* call returns an error.
SyncApply(failed) ==
    LET c == fwCall[SyncProc]
    IN /\ ~Crashed
       /\ c # Idle /\ c.pc = "apply"
       /\ failed \subseteq {r.ID : r \in c.todo}
       /\ kernel' = ApplyRules({r \in c.todo : r.ID \notin failed}, kernel)
       /\ fwCall' = [fwCall EXCEPT ![SyncProc] =
             [c EXCEPT !.pc = "unlock",
                       !.calls = {Call("AddRule", r.ID, r.ID \notin failed) : r \in c.todo}]]
       /\ UNCHANGED <<CallFrame, fwRules, fwMu, last, opSeq>>

\* The deferred m.mu.RUnlock() and the return to syncLoop.
SyncReturn ==
    LET c == fwCall[SyncProc]
    IN /\ ~Crashed
       /\ c # Idle /\ c.pc = "unlock"
       /\ fwMu' = [fwMu EXCEPT !.r = @ - 1]
       /\ fwCall' = [fwCall EXCEPT ![SyncProc] = Idle]
       /\ UNCHANGED <<CallFrame, fwRules, kernel, last, opSeq>>

\* loadConfigRules: AddRule for each configured rule, failures are logged.
RECURSIVE LoadConfig(_, _, _)
LoadConfig(i, st, cfgFailed) ==
    IF i > Len(CfgRules) THEN st
    ELSE LET rule == [CfgRules[i] EXCEPT !.ID = generateRuleID(now)]
             ok == i \notin cfgFailed
         IN LoadConfig(i + 1,
                [rules |-> AddRuleStore(st.rules, rule, ok),
                 kernel |-> IF ok THEN IPTAddRule(rule, st.kernel) ELSE st.kernel],
                cfgFailed)

\* Manager.Start.  polFailAt = k > 0: SetDefaultPolicy fails on the k-th chain
\* and Start returns the error after running was set.
FwStart(polFailAt, cfgFailed) ==
    /\ ~Crashed
    /\ IF fwRunning
       THEN /\ last' = Op("Start", "", "AlreadyRunning", NoCalls)
            /\ UNCHANGED <<fwRules, kernel, fwRunning, fwLoops>>
       ELSE /\ fwRunning' = TRUE
            /\ IF polFailAt > 0
               THEN /\ last' = Op("Start", "", "BackendError",
                                  {Call("SetDefaultPolicy", Chains[k], k < polFailAt)
                                      : k \in 1..polFailAt})
                    /\ UNCHANGED <<fwRules, kernel, fwLoops>>
               ELSE LET st == LoadConfig(1, [rules |-> fwRules, kernel |-> kernel],
                                         cfgFailed)
                    IN /\ fwRules' = st.rules
                       /\ kernel' = st.kernel
                       /\ fwLoops' = fwLoops + 1
                       /\ last' = Op("Start", "", "nil",
                                     {Call("SetDefaultPolicy", Chains[k], TRUE)
                                         : k \in 1..Len(Chains)})
    /\ opSeq' = 1 - opSeq
    /\ UNCHANGED <<now, ctxDone, hcVars, fwStopClosed, fwCrashed, smVars, fwMu, fwCall>>

\* Faulty variant: Stop flushes the backend.
StopKernel_Flush(kern) == IPTFlush(kern, 0).kernel

\* The filter table after Manager.Stop, which calls nothing of the backend.
StopKernel(kern) == kern

\* Manager.Stop: close(stopChan) panics when the channel is already closed.
FwStop ==
    /\ ~Crashed
    /\ IF ~fwRunning
       THEN /\ last' = Op("Stop", "", "NotRunning", NoCalls)
            /\ UNCHANGED <<fwRunning, fwStopClosed, fwCrashed, kernel>>
       ELSE /\ fwRunning' = FALSE
            /\ fwStopClosed' = TRUE
            /\ fwCrashed' = fwStopClosed
            /\ kernel' = StopKernel(kernel)
            /\ last' = Op("Stop", "", IF fwStopClosed THEN "panic" ELSE "nil", NoCalls)
    /\ opSeq' = 1 - opSeq
    /\ UNCHANGED <<now, ctxDone, hcVars, fwRules, fwLoops, smVars, fwMu, fwCall>>

\* syncLoop returns once it observes its context cancelled or the closed stop
\* channel.
FwLoopExit ==
    /\ ~Crashed
    /\ fwLoops > 0
    /\ fwStopClosed \/ ctxDone
    /\ fwLoops' = fwLoops - 1
    /\ UNCHANGED <<now, ctxDone, hcVars, fwRules, kernel, fwRunning, fwStopClosed, fwCrashed,
                   smVars, last, opSeq, fwMu, fwCall>>

\* The environment: someone else appends or deletes an entry of the filter
\* table (drift), and time passes.
ExternalAdd(e) ==
    /\ kernel[e] < MaxDup
    /\ kernel' = [kernel EXCEPT ![e] = @ + 1]
    /\ last' = Op("external", "", "nil", NoCalls)
    /\ opSeq' = 1 - opSeq
    /\ UNCHANGED <<now, ctxDone, hcVars, fwRules, fwRunning, fwStopClosed, fwLoops, fwCrashed, smVars, fwMu, fwCall>>

ExternalDelete(e) ==
    /\ kernel[e] > 0
    /\ kernel' = [kernel EXCEPT ![e] = @ - 1]
    /\ last' = Op("external", "", "nil", NoCalls)
    /\ opSeq' = 1 - opSeq
    /\ UNCHANGED <<now, ctxDone, hcVars, fwRules, fwRunning, fwStopClosed, fwLoops, fwCrashed, smVars, fwMu, fwCall>>

Tick ==
    /\ now < MaxClock
    /\ now' = now + 1
    /\ UNCHANGED <<ctxDone, fwVars, smVars, hcVars, last, opSeq>>

----------------------------------------------------------------------------
(* Service mesh: data *)

ServiceNames == {"web", "db"}

CallerServiceIDs == {"s1"}

ServiceStatuses == {"healthy", "unhealthy", "unknown"}

\* NewLoadBalancer: round_robin (also the default), random; weighted selects
\* like random.
Strategies == {"round_robin", "random"}

generateServiceID(serviceName, t) == serviceName \o "-" \o ToString(t)

ServiceIDs ==
    CallerServiceIDs \cup {generateServiceID(n, t) : n \in ServiceNames, t \in 0..MaxClock}

----------------------------------------------------------------------------
(* Service mesh: the discovery backend and the load balancer *)

\* StaticDiscovery.Register: append the pointer to the list of its name.
StaticRegister(d, name, ptr) == [d EXCEPT ![name] = Append(@, ptr)]

RemoveAt(seq, i) == SubSeq(seq, 1, i - 1) \o SubSeq(seq, i + 1, Len(seq))

\* The first position in list of a pointer to a service with this ID, 0 if none.
FirstWithID(objs, list, id) ==
    IF \E i \in 1..Len(list) : objs[list[i]].ID = id
    THEN CHOOSE i \in 1..Len(list) :
            /\ objs[list[i]].ID = id
            /\ \A j \in 1..(i - 1) : objs[list[j]].ID # id
    ELSE 0

\* StaticDiscovery.Deregister: the possible results.  The names are visited in
\* map order, which Go leaves open; the first match of the first name that has
\* one is removed.  No match under any name: "service not found".
StaticDeregister(objs, d, id) ==
    LET hits == {n \in DOMAIN d : FirstWithID(objs, d[n], id) # 0}
    IN IF hits = {} THEN {[ok |-> FALSE, disc |-> d]}
       ELSE {[ok |-> TRUE,
              disc |-> [d EXCEPT ![n] = RemoveAt(@, FirstWithID(objs, d[n], id))]] : n \in hits}

\* StaticDiscovery.Discover
StaticDiscover(d, name) == d[name]

\* Faulty variant: any position, whatever the counter.
LBSelect_Any(strategy, n, counter) == 1..n

\* The positions LoadBalancer.Select may return for a list of n > 0 services:
\* round robin takes (counter + 1) mod n, random any position.
LBSelect(strategy, n, counter) ==
    IF strategy = "round_robin" THEN {((counter + 1) % n) + 1} ELSE 1..n

\* Faulty variant: the filter only drops the instances known to be unhealthy.
HealthyOf_NotUnhealthy(objs, services) ==
    SelectSeq(services, LAMBDA ptr : objs[ptr].Status # "unhealthy")

\* SelectService's filter: the discovered instances whose status is healthy.
HealthyOf(objs, services) ==
    SelectSeq(services, LAMBDA ptr : objs[ptr].Status = "healthy")

----------------------------------------------------------------------------
(* Service mesh: manager operations *)

OpRet(op, id, err, calls, ret) == [Op(op, id, err, calls) EXCEPT !.ret = ret]

\* Faulty variant: the service is stored before the backend call, with no rollback.
RegisterStore_BeforeBackend(services, id, ptr, registerOK) ==
    StorePut(services, id, ptr)

\* The store after RegisterService: the service is inserted only when the
\* backend's Register succeeded.
RegisterStore(services, id, ptr, registerOK) ==
    IF registerOK THEN StorePut(services, id, ptr) ELSE services

\* RegisterService with a freshly decoded Service (as the API handler passes).
\* registerOK is the result of Discovery.Register.
RegisterService(name, callerID, hasCheck, registerOK) ==
    LET id == IF callerID = "" THEN generateServiceID(name, now) ELSE callerID
        ptr == Len(svc) + 1
        service == [ID |-> id, Name |-> name, HealthCheck |-> hasCheck, Status |-> "unknown",
                    LastSeen |-> now]
    IN /\ ~Crashed
       /\ Len(svc) < MaxSvcObjs
       /\ smServices' = RegisterStore(smServices, id, ptr, registerOK)
       /\ disc' = IF registerOK THEN StaticRegister(disc, name, ptr) ELSE disc
       \* the caller's object outlives the call only if something points to it
       /\ svc' = IF registerOK \/ smServices' # smServices THEN Append(svc, service) ELSE svc
       /\ last' = Op("RegisterService", id, IF registerOK THEN "nil" ELSE "BackendError",
                     {Call("Register", id, registerOK)})
       /\ opSeq' = 1 - opSeq
       /\ UNCHANGED <<now, ctxDone, hcVars, fwVars, lbVars, smLife, lbStrategy, rrCounter>>

\* Faulty variant: the service is dropped before the backend call.
DeregisterStore_BeforeBackend(services, id, deregisterOK) ==
    StoreDelete(services, id)

\* The store after DeregisterService of a stored service: removed only when
\* the backend's Deregister succeeded.
DeregisterStore(services, id, deregisterOK) ==
    IF deregisterOK THEN StoreDelete(services, id) ELSE services

\* DeregisterService.  callOK = FALSE: the backend call itself fails.
DeregisterService(id, callOK) ==
    /\ ~Crashed
    /\ IF id \notin DOMAIN smServices
       THEN /\ last' = Op("DeregisterService", id, "NotFound", NoCalls)
            /\ UNCHANGED <<disc, smServices>>
       ELSE \E res \in StaticDeregister(svc, disc, id) :
               LET ok == callOK /\ res.ok
               IN /\ disc' = IF ok THEN res.disc ELSE disc
                  /\ smServices' = DeregisterStore(smServices, id, ok)
                  /\ last' = Op("DeregisterService", id,
                                IF ok THEN "nil" ELSE "BackendError",
                                {Call("Deregister", id, ok)})
    /\ opSeq' = 1 - opSeq
    /\ UNCHANGED <<now, ctxDone, hcVars, fwVars, lbVars, smLife, svc, lbStrategy, rrCounter>>

\* Faulty variant: every instance of the service's name is updated.
UpdateStatus_ByName(objs, ptr, status, t) ==
    [p \in DOMAIN objs |->
        IF objs[p].Name = objs[ptr].Name
        THEN [objs[p] EXCEPT !.Status = status, !.LastSeen = t] ELSE objs[p]]

\* The Service objects after service.Status = status; service.LastSeen = now.
UpdateStatus(objs, ptr, status, t) ==
    [objs EXCEPT ![ptr] = [@ EXCEPT !.Status = status, !.LastSeen = t]]

\* UpdateServiceStatus; ret records the status the caller passed.
UpdateServiceStatus(id, status) ==
    /\ ~Crashed
    /\ IF id \notin DOMAIN smServices
       THEN /\ last' = OpRet("UpdateServiceStatus", id, "NotFound", NoCalls, status)
            /\ UNCHANGED svc
       ELSE /\ svc' = UpdateStatus(svc, smServices[id], status, now)
            /\ last' = OpRet("UpdateServiceStatus", id, "nil", NoCalls, status)
    /\ opSeq' = 1 - opSeq
    /\ UNCHANGED <<now, ctxDone, hcVars, fwVars, lbVars, smLife, smServices, disc, lbStrategy, rrCounter>>

\* NewManager: NewLoadBalancer(cfg.LoadBalance.Strategy), at construction.
Configure(strategy) ==
    /\ last.op = "none"
    /\ svc = <<>>
    /\ lbStrategy' = strategy
    /\ UNCHANGED <<now, ctxDone, hcVars, fwVars, lbVars, smLife, svc, smServices, disc, rrCounter, last, opSeq>>

\* DiscoverService: the backend's list for the name, as it is; ret is the
\* list of *Service returned.
DiscoverService(name) ==
    /\ ~Crashed
    /\ last' = OpRet("DiscoverService", name, "nil", NoCalls, StaticDiscover(disc, name))
    /\ opSeq' = 1 - opSeq
    /\ UNCHANGED <<now, ctxDone, hcVars, fwVars, smVars>>

\* SelectService: discover, keep the healthy instances, let the load balancer
\* pick.  ret is the selected *Service, 0 when the call fails.
SelectService(name) ==
    LET services == StaticDiscover(disc, name)
        healthyServices == HealthyOf(svc, services)
    IN /\ ~Crashed
       /\ rrCounter < MaxSelects
       /\ IF Len(services) = 0
          THEN /\ last' = OpRet("SelectService", name, "no instances found", NoCalls, 0)
               /\ UNCHANGED rrCounter
          ELSE IF Len(healthyServices) = 0
          THEN /\ last' = OpRet("SelectService", name, "no healthy instances found", NoCalls, 0)
               /\ UNCHANGED rrCounter
          ELSE \E i \in LBSelect(lbStrategy, Len(healthyServices), rrCounter) :
                  /\ last' = OpRet("SelectService", name, "nil", NoCalls, healthyServices[i])
                  /\ rrCounter' = IF lbStrategy = "round_robin" THEN rrCounter + 1
                                  ELSE rrCounter
       /\ opSeq' = 1 - opSeq
       /\ UNCHANGED <<now, ctxDone, hcVars, fwVars, lbVars, smLife, svc, smServices, disc, lbStrategy>>

\* The loop of Manager.Stop: Deregister of every id in ids, one after the
\* other, failures logged and ignored.  failing: the ids for which the
\* backend call fails before it changes anything.  The possible results:
\* the discovery lists and the ids Deregister was called for.
RECURSIVE DeregisterAll(_, _, _, _)
DeregisterAll(objs, d, ids, failing) ==
    IF ids = {} THEN {[disc |-> d, called |-> {}]}
    ELSE LET id == CHOOSE i \in ids : TRUE
         IN UNION {{[r EXCEPT !.called = @ \cup {id}] :
                       r \in DeregisterAll(objs, t.disc, ids \ {id}, failing)}
                      : t \in IF id \in failing THEN {[ok |-> FALSE, disc |-> d]}
                              ELSE StaticDeregister(objs, d, id)}

\* Faulty variant: syncDiscovery returns at the first failing Register.
RECURSIVE RegisterAll_StopAtFailure(_, _, _, _, _)
RegisterAll_StopAtFailure(objs, services, d, ids, failing) ==
    IF ids = {} THEN [disc |-> d, called |-> {}]
    ELSE LET id == CHOOSE i \in ids : TRUE
             ptr == services[id]
         IN IF id \in failing THEN [disc |-> d, called |-> {id}]
            ELSE LET r == RegisterAll_StopAtFailure(objs, services,
                                StaticRegister(d, objs[ptr].Name, ptr), ids \ {id}, failing)
                 IN [r EXCEPT !.called = @ \cup {id}]

\* The loop of syncDiscovery: Register of every stored service, failures
\* logged and ignored.  failing: the ids for which the backend call fails.
\* The result: the discovery lists and the ids Register was called for.
RECURSIVE RegisterAll(_, _, _, _, _)
RegisterAll(objs, services, d, ids, failing) ==
    IF ids = {} THEN [disc |-> d, called |-> {}]
    ELSE LET id == CHOOSE i \in ids : TRUE
             ptr == services[id]
             r == RegisterAll(objs, services,
                              IF id \in failing THEN d
                              ELSE StaticRegister(d, objs[ptr].Name, ptr),
                              ids \ {id}, failing)
         IN [r EXCEPT !.called = @ \cup {id}]

\* Faulty variant: the first failing Register ends the pass.
SyncDiscoveryResult_StopAtFailure(objs, services, d, failing) ==
    RegisterAll_StopAtFailure(objs, services, d, DOMAIN services, failing)

\* syncDiscovery: what one pass does to the discovery lists and which ids it
\* calls Register for.
SyncDiscoveryResult(objs, services, d, failing) ==
    RegisterAll(objs, services, d, DOMAIN services, failing)

----------------------------------------------------------------------------
(* Load balancers, called directly with a candidate list *)

Cand(i) == "S" \o ToString(i)

CandIDs == {Cand(i) : i \in 1..MaxCands}

\* The candidate lists: S1, ..., Sn.
CandList(n) == [i \in 1..n |-> Cand(i)]

\* The caller fixes the candidate list it will pass to every Select.
LBSetup(n) ==
    /\ lbList = <<>>
    /\ last.op = "none"
    /\ lbList' = CandList(n)
    /\ UNCHANGED <<now, ctxDone, hcVars, fwVars, svc, smServices, disc, lbStrategy,
                   rrCounter, smLife, lbHist, lcConn, lcPending, rrPending, last, opSeq>>

\* RoundRobinLoadBalancer.Select(lbList) up to its atomic add, the call's
\* only access to shared state: the add orders concurrent calls and fixes
\* the position each of them returns.  lbHist lists the calls in that order.
RRSelect ==
    /\ Len(lbHist) < MaxLBCalls
    /\ Cardinality(rrPending) < MaxInflight
    /\ IF Len(lbList) = 0
       THEN /\ last' = OpRet("RRSelect", "", "no services available", NoCalls, 0)
            /\ UNCHANGED <<rrCounter, lbHist, rrPending>>
       ELSE \E i \in LBSelect("round_robin", Len(lbList), rrCounter) :
               /\ rrCounter' = rrCounter + 1
               /\ lbHist' = Append(lbHist, lbList[i])
               /\ rrPending' = rrPending \cup {Len(lbHist) + 1}
               /\ last' = OpRet("RRSelect", lbList[i], "nil", NoCalls, i)
    /\ opSeq' = 1 - opSeq
    /\ UNCHANGED <<now, ctxDone, hcVars, fwVars, svc, smServices, disc, lbStrategy,
                   smLife, lbList, lcConn, lcPending>>

\* The return of the call that made the t-th add; concurrent calls return
\* in any order.
RRReturn(t) ==
    /\ t \in rrPending
    /\ rrPending' = rrPending \ {t}
    /\ last' = OpRet("RRReturn", lbHist[t], "nil", NoCalls, t)
    /\ opSeq' = 1 - opSeq
    /\ UNCHANGED <<now, ctxDone, hcVars, fwVars, svc, smServices, disc, lbStrategy,
                   rrCounter, smLife, lbList, lbHist, lcConn, lcPending>>

\* Faulty variant: ties go to the last candidate with the minimum.
LeastConn_LastMin(services, connections) ==
    CHOOSE i \in 1..Len(services) :
       /\ \A j \in 1..Len(services) : connections[services[i]] <= connections[services[j]]
       /\ \A j \in (i + 1)..Len(services) :
             connections[services[j]] > connections[services[i]]

\* The loop of LeastConnLoadBalancer.Select from position i on: minConn is
\* the lowest count seen so far (-1: none yet), selected its position.
RECURSIVE LeastConnFrom(_, _, _, _, _)
LeastConnFrom(services, connections, i, minConn, selected) ==
    IF i > Len(services) THEN selected
    ELSE LET conn == connections[services[i]]
         IN IF minConn = -1 \/ conn < minConn
            THEN LeastConnFrom(services, connections, i + 1, conn, i)
            ELSE LeastConnFrom(services, connections, i + 1, minConn, selected)

\* The position LeastConnLoadBalancer.Select chooses in a non-empty list.
LeastConn(services, connections) == LeastConnFrom(services, connections, 1, -1, 0)

\* LeastConnLoadBalancer.Select, first part: under the read lock, choose.
LCSelect ==
    /\ Len(lcPending) < MaxInflight
    /\ IF Len(lbList) = 0
       THEN /\ last' = OpRet("LCSelect", "", "no services available", NoCalls, 0)
            /\ UNCHANGED lcPending
       ELSE LET i == LeastConn(lbList, lcConn)
            IN /\ lcPending' = Append(lcPending, lbList[i])
               /\ last' = OpRet("LCSelect", lbList[i], "nil", NoCalls, i)
    /\ opSeq' = 1 - opSeq
    /\ UNCHANGED <<now, ctxDone, hcVars, fwVars, svc, smServices, disc, lbStrategy,
                   rrCounter, smLife, lbList, lbHist, lcConn, rrPending>>

\* LeastConnLoadBalancer.Select, second part: the read lock is given up, the
\* write lock taken and the chosen candidate's count incremented.
LCCount(k) ==
    /\ k \in 1..Len(lcPending)
    /\ lcConn[lcPending[k]] < MaxConn
    /\ lcConn' = [lcConn EXCEPT ![lcPending[k]] = @ + 1]
    /\ lcPending' = RemoveAt(lcPending, k)
    /\ last' = OpRet("LCCount", lcPending[k], "nil", NoCalls, 0)
    /\ opSeq' = 1 - opSeq
    /\ UNCHANGED <<now, ctxDone, hcVars, fwVars, svc, smServices, disc, lbStrategy,
                   rrCounter, smLife, lbList, lbHist, rrPending>>

\* Faulty variant: the decrement without the test of the count.
Released_Unchecked(connections, serviceID) ==
    [connections EXCEPT ![serviceID] = @ - 1]

\* The counts after ReleaseConnection: one less for a service whose count
\* exists and is positive, nothing otherwise (a missing map entry reads 0).
Released(connections, serviceID) ==
    IF connections[serviceID] > 0 THEN [connections EXCEPT ![serviceID] = @ - 1]
    ELSE connections

\* LeastConnLoadBalancer.ReleaseConnection
ReleaseConnection(serviceID) ==
    /\ lcConn' = Released(lcConn, serviceID)
    /\ last' = OpRet("ReleaseConnection", serviceID, "nil", NoCalls, 0)
    /\ opSeq' = 1 - opSeq
    /\ UNCHANGED <<now, ctxDone, hcVars, fwVars, svc, smServices, disc, lbStrategy,
                   rrCounter, smLife, lbList, lbHist, lcPending, rrPending>>

\* Faulty variant: Start launches a discoveryLoop whether running or not.
StartedLoops_Always(running, loops) == loops + 1

\* The discoveryLoop goroutines after Manager.Start: one more unless the
\* manager was running already.
StartedLoops(running, loops) == IF running THEN loops ELSE loops + 1

\* servicemesh Manager.Start
SmStart ==
    /\ ~Crashed
    /\ smLoops' = StartedLoops(smRunning, smLoops)
    /\ IF smRunning
       THEN /\ last' = Op("SmStart", "", "AlreadyRunning", NoCalls)
            /\ UNCHANGED smRunning
       ELSE /\ smRunning' = TRUE
            /\ last' = Op("SmStart", "", "nil", NoCalls)
    /\ opSeq' = 1 - opSeq
    /\ UNCHANGED <<now, ctxDone, hcVars, fwVars, lbVars, svc, smServices, disc, lbStrategy,
                   rrCounter, smStopClosed, smCrashed>>

\* servicemesh Manager.Stop: deregisters every stored service from the
\* backend (the store is kept), then closes stopChan; closing it a second
\* time panics.
SmStop(failing) ==
    /\ ~Crashed
    /\ failing \subseteq DOMAIN smServices
    /\ IF ~smRunning
       THEN /\ failing = {}
            /\ last' = Op("SmStop", "", "NotRunning", NoCalls)
            /\ UNCHANGED <<smRunning, smStopClosed, smCrashed, disc>>
       ELSE /\ smRunning' = FALSE
            /\ \E r \in DeregisterAll(svc, disc, DOMAIN smServices, failing) :
                  /\ disc' = r.disc
                  /\ last' = Op("SmStop", "", IF smStopClosed THEN "panic" ELSE "nil",
                                {Call("Deregister", id,
                                      /\ id \notin failing
                                      /\ \E n \in DOMAIN disc :
                                            FirstWithID(svc, disc[n], id) # 0)
                                    : id \in r.called})
            /\ smStopClosed' = TRUE
            /\ smCrashed' = smStopClosed
    /\ opSeq' = 1 - opSeq
    /\ UNCHANGED <<now, ctxDone, hcVars, fwVars, lbVars, svc, smServices, lbStrategy, rrCounter,
                   smLoops>>

\* discoveryLoop returns once it observes its context cancelled or the closed
\* stop channel.
SmLoopExit ==
    /\ ~Crashed
    /\ smLoops > 0
    /\ smStopClosed \/ ctxDone
    /\ smLoops' = smLoops - 1
    /\ UNCHANGED <<now, ctxDone, hcVars, fwVars, lbVars, svc, smServices, disc, lbStrategy,
                   rrCounter, smRunning, smStopClosed, smCrashed, last, opSeq>>

\* One iteration of discoveryLoop: the ticker fired and syncDiscovery() ran,
\* registering every stored service with the backend again.
SyncDiscovery(failing) ==
    /\ ~Crashed
    /\ smLoops > 0
    /\ failing \subseteq DOMAIN smServices
    /\ LET r == SyncDiscoveryResult(svc, smServices, disc, failing)
       IN /\ disc' = r.disc
          /\ last' = Op("syncDiscovery", "", "nil",
                        {Call("Register", id, id \notin failing) : id \in r.called})
    /\ \A n \in ServiceNames : Len(disc'[n]) <= MaxDisc
    /\ opSeq' = 1 - opSeq
    /\ UNCHANGED <<now, ctxDone, hcVars, fwVars, lbVars, svc, smServices, lbStrategy, rrCounter,
                   smLife>>

\* The context handed to Agent.Start, and by it to every manager's Start, is
\* cancelled.
CtxCancel ==
    /\ ~Crashed
    /\ ~ctxDone
    /\ ctxDone' = TRUE
    /\ UNCHANGED <<now, fwVars, smVars, hcVars, last, opSeq>>

----------------------------------------------------------------------------
(* Health checker *)

\* Check.Type as given by callers; "tcp" is probed like "http", "icmp" stands
\* for a type performCheck does not know.
CheckTypes == {"http", "grpc", "icmp"}

CallerCheckIDs == {"c1"}

generateCheckID(t) == "check-" \o ToString(t)

CheckIDs == CallerCheckIDs \cup {generateCheckID(t) : t \in 0..MaxClock}

\* The probe of performCheck's switch: "nil", an error, or "unknown" for a
\* type the switch does not know.  reachable: the target answers (with a 2xx).
Probe(type, reachable) ==
    CASE type = "http" -> IF reachable THEN "nil" ELSE "ProbeFailed"
      [] type = "tcp" -> IF reachable THEN "nil" ELSE "ProbeFailed"
      [] type = "grpc" -> "nil"
      [] OTHER -> "unknown"

\* As PerformUpdate, but Critical only above three failures.
PerformUpdate_Late(check, err) ==
    IF err # "nil"
    THEN LET f == check.Failures + 1
         IN [check EXCEPT !.Failures = f,
                          !.Status = IF f > 3 THEN "critical" ELSE "warning"]
    ELSE [check EXCEPT !.Failures = 0, !.Status = "passing"]

\* performCheck, the update of the Check after the probe returned err.
PerformUpdate(check, err) ==
    IF err # "nil"
    THEN LET f == check.Failures + 1
         IN [check EXCEPT !.Failures = f,
                          !.Status = IF f >= 3 THEN "critical" ELSE "warning"]
    ELSE [check EXCEPT !.Failures = 0, !.Status = "passing"]

\* AddCheck with a freshly built Check of the given type.
AddCheck(callerID, type) ==
    LET id == IF callerID = "" THEN generateCheckID(now) ELSE callerID
        ptr == Len(chk) + 1
        check == [ID |-> id, Type |-> type, Status |-> "passing", Failures |-> 0,
                  callback |-> FALSE]
    IN /\ ~Crashed
       /\ Len(chk) < MaxChkObjs
       /\ chk' = Append(chk, check)
       /\ hcChecks' = StorePut(hcChecks, id, ptr)
       \* go c.checkLoop(context.Background(), check)
       /\ hcBgLoops' = IF hcRunning THEN [hcBgLoops EXCEPT ![ptr] = @ + 1] ELSE hcBgLoops
       /\ last' = OpRet("AddCheck", id, "nil", NoCalls, ptr)
       /\ opSeq' = 1 - opSeq
       /\ UNCHANGED <<now, ctxDone, fwVars, smVars, hcLoops, hcRunning, hcStopClosed, hcCrashed,
                      hcStreak, probes, cbPending, hcMu, hcProbe>>

\* AddCheck with a Check object the caller already holds (GetCheck hands out
\* the pointer): the ID, interval and timeout are set already; Status and
\* LastCheck are written, the object is stored under its ID, and a running
\* checker starts one more loop for it.
AddCheckAgain(ptr) ==
    /\ ~Crashed
    /\ ptr \in 1..Len(chk)
    /\ hcBgLoops[ptr] < MaxReadds
    /\ chk' = [chk EXCEPT ![ptr].Status = "passing"]
    /\ hcChecks' = StorePut(hcChecks, chk[ptr].ID, ptr)
    /\ hcBgLoops' = IF hcRunning THEN [hcBgLoops EXCEPT ![ptr] = @ + 1] ELSE hcBgLoops
    /\ last' = OpRet("AddCheck", chk[ptr].ID, "nil", NoCalls, ptr)
    /\ opSeq' = 1 - opSeq
    /\ UNCHANGED <<now, ctxDone, fwVars, smVars, hcLoops, hcRunning, hcStopClosed, hcCrashed,
                   hcStreak, probes, cbPending, hcMu, hcProbe>>

RemoveCheck(id) ==
    /\ ~Crashed
    /\ IF id \notin DOMAIN hcChecks
       THEN /\ last' = Op("RemoveCheck", id, "NotFound", NoCalls)
            /\ UNCHANGED hcChecks
       ELSE /\ hcChecks' = StoreDelete(hcChecks, id)
            /\ last' = Op("RemoveCheck", id, "nil", NoCalls)
    /\ opSeq' = 1 - opSeq
    /\ UNCHANGED <<now, ctxDone, fwVars, smVars, hcBgLoops, chk, hcLoops, hcRunning, hcStopClosed,
                   hcCrashed, hcStreak, probes, cbPending, hcMu, hcProbe>>

SetCallback(id) ==
    /\ ~Crashed
    /\ IF id \notin DOMAIN hcChecks
       THEN /\ last' = Op("SetCallback", id, "NotFound", NoCalls)
            /\ UNCHANGED chk
       ELSE /\ chk' = [chk EXCEPT ![hcChecks[id]].callback = TRUE]
            /\ last' = Op("SetCallback", id, "nil", NoCalls)
    /\ opSeq' = 1 - opSeq
    /\ UNCHANGED <<now, ctxDone, fwVars, smVars, hcBgLoops, hcChecks, hcLoops, hcRunning, hcStopClosed,
                   hcCrashed, hcStreak, probes, cbPending, hcMu, hcProbe>>

\* Checker.Start: one checkLoop per stored check.
HcStart ==
    /\ ~Crashed
    /\ IF hcRunning
       THEN /\ last' = Op("HcStart", "", "AlreadyRunning", NoCalls)
            /\ UNCHANGED <<hcRunning, hcLoops>>
       ELSE /\ hcRunning' = TRUE
            /\ hcLoops' = [p \in 1..MaxChkObjs |->
                              IF \E id \in DOMAIN hcChecks : hcChecks[id] = p
                              THEN hcLoops[p] + 1 ELSE hcLoops[p]]
            /\ last' = Op("HcStart", "", "nil", NoCalls)
    /\ opSeq' = 1 - opSeq
    /\ UNCHANGED <<now, ctxDone, fwVars, smVars, hcBgLoops, chk, hcChecks, hcStopClosed, hcCrashed,
                   hcStreak, probes, cbPending, hcMu, hcProbe>>

\* Checker.Stop: closes stopChan; closing it a second time panics.
HcStop ==
    /\ ~Crashed
    /\ IF ~hcRunning
       THEN /\ last' = Op("HcStop", "", "NotRunning", NoCalls)
            /\ UNCHANGED <<hcRunning, hcStopClosed, hcCrashed>>
       ELSE /\ hcRunning' = FALSE
            /\ hcStopClosed' = TRUE
            /\ hcCrashed' = hcStopClosed
            /\ last' = Op("HcStop", "", IF hcStopClosed THEN "panic" ELSE "nil", NoCalls)
    /\ opSeq' = 1 - opSeq
    /\ UNCHANGED <<now, ctxDone, fwVars, smVars, hcBgLoops, chk, hcChecks, hcLoops, hcStreak, probes, cbPending, hcMu, hcProbe>>

\* A checkLoop started by Start sees its context cancelled or the closed
\* stopChan and returns.
HcLoopExit(ptr) ==
    /\ ~Crashed
    /\ hcStopClosed \/ ctxDone
    /\ hcLoops[ptr] > 0
    /\ hcLoops' = [hcLoops EXCEPT ![ptr] = @ - 1]
    /\ UNCHANGED <<now, ctxDone, fwVars, smVars, hcBgLoops, chk, hcChecks, hcRunning,
                   hcStopClosed, hcCrashed, hcStreak, probes, cbPending, last, opSeq, hcMu, hcProbe>>

\* A checkLoop started by AddCheck runs under context.Background(): only the
\* closed stopChan makes it return.
HcBgLoopExit(ptr) ==
    /\ ~Crashed
    /\ hcStopClosed
    /\ hcBgLoops[ptr] > 0
    /\ hcBgLoops' = [hcBgLoops EXCEPT ![ptr] = @ - 1]
    /\ UNCHANGED <<now, ctxDone, fwVars, smVars, hcLoops, chk, hcChecks, hcRunning,
                   hcStopClosed, hcCrashed, hcStreak, probes, cbPending, last, opSeq, hcMu, hcProbe>>

\* The ticker of a checkLoop fires: performCheck.  The callback, when set,
\* is launched in a goroutine of its own with the new status.
PerformCheck(ptr, reachable) ==
    LET check == chk[ptr]
        err == Probe(check.Type, reachable)
        after == PerformUpdate(check, err)
    IN /\ ~Crashed
       /\ hcLoops[ptr] + hcBgLoops[ptr] > 0
       /\ check.Failures < MaxFailures
       /\ check.callback => Len(cbPending) < MaxCallbacks
       /\ IF err = "unknown"
          THEN /\ last' = OpRet("performCheck", check.ID, "UnknownType", NoCalls, ptr)
               /\ UNCHANGED <<chk, hcStreak, cbPending>>
          ELSE /\ chk' = [chk EXCEPT ![ptr] = after]
               \* go check.callback(check.Status)
               /\ cbPending' = IF check.callback
                               THEN Append(cbPending, [ptr |-> ptr, status |-> after.Status])
                               ELSE cbPending
               /\ hcStreak' = [hcStreak EXCEPT ![ptr] = IF err = "nil" THEN 0 ELSE @ + 1]
               /\ last' = OpRet("performCheck", check.ID, err,
                                IF check.callback
                                THEN {Call("callback", after.Status, TRUE)} ELSE NoCalls,
                                ptr)
       /\ opSeq' = 1 - opSeq
       /\ UNCHANGED <<now, ctxDone, fwVars, smVars, hcBgLoops, hcChecks, hcLoops, hcRunning, hcStopClosed,
                      hcCrashed, probes, hcMu, hcProbe>>

----------------------------------------------------------------------------
(* Health checker: performCheck step by step, under Checker.mu *)

NoProbe == [pc |-> "idle", err |-> "nil", over |-> FALSE]

ProbeFrame == <<now, ctxDone, fwVars, smVars, hcBgLoops, hcChecks, hcLoops, hcRunning,
                hcStopClosed, hcCrashed, probes, last, opSeq>>

\* Faulty variant: the lock taken for LastCheck is kept while the probe runs.
MuAfterStamp_Held(ptr) == ptr

\* Checker.mu after performCheck's first critical section: c.mu.Unlock()
\* comes before the switch that runs the probe.
MuAfterStamp(ptr) == 0

\* The ticker of a checkLoop fires: performCheck locks, writes LastCheck,
\* unlocks, and sends the probe (an unknown type returns instead).
ProbeStamp(ptr) ==
    /\ ~Crashed
    /\ ptr \in 1..Len(chk)
    /\ hcLoops[ptr] + hcBgLoops[ptr] > 0
    /\ hcProbe[ptr].pc = "idle"
    /\ chk[ptr].Failures < MaxFailures
    /\ hcMu = 0
    /\ IF Probe(chk[ptr].Type, TRUE) = "unknown"
       THEN UNCHANGED <<hcMu, hcProbe>>
       ELSE /\ hcMu' = MuAfterStamp(ptr)
            /\ hcProbe' = [hcProbe EXCEPT ![ptr] = [NoProbe EXCEPT !.pc = "probing"]]
    /\ UNCHANGED <<ProbeFrame, chk, hcStreak, cbPending>>

\* The probe returns: the target answered, refused, or the timeout expired.
\* A hung probe is one for which this step is never taken.
ProbeReturn(ptr, reachable) ==
    /\ ~Crashed
    /\ hcProbe[ptr].pc = "probing"
    /\ hcProbe' = [hcProbe EXCEPT ![ptr].pc = "update",
                                  ![ptr].err = Probe(chk[ptr].Type, reachable)]
    /\ UNCHANGED <<ProbeFrame, chk, hcStreak, cbPending, hcMu>>

\* performCheck's second critical section: c.mu.Lock(), the update of the
\* Check, go check.callback, the deferred Unlock.  `over` marks the probes of
\* other checks that were in flight meanwhile.
ProbeUpdate(ptr) ==
    LET check == chk[ptr]
        after == PerformUpdate(check, hcProbe[ptr].err)
    IN /\ ~Crashed
       /\ hcProbe[ptr].pc = "update"
       /\ hcMu = 0
       /\ check.callback => Len(cbPending) < MaxCallbacks
       /\ chk' = [chk EXCEPT ![ptr] = after]
       /\ cbPending' = IF check.callback
                       THEN Append(cbPending, [ptr |-> ptr, status |-> after.Status])
                       ELSE cbPending
       /\ hcStreak' = [hcStreak EXCEPT ![ptr] = IF hcProbe[ptr].err = "nil" THEN 0 ELSE @ + 1]
       /\ hcProbe' = [q \in DOMAIN hcProbe |->
                         IF q = ptr THEN NoProbe
                         ELSE IF hcProbe[q].pc = "probing"
                              THEN [hcProbe[q] EXCEPT !.over = TRUE]
                              ELSE hcProbe[q]]
       /\ UNCHANGED <<ProbeFrame, hcMu>>

\* GetCheck and ListChecks: a lookup under the read lock.
GetCheck(id) ==
    /\ ~Crashed
    /\ hcMu = 0
    /\ last' = OpRet("GetCheck", id, IF id \in DOMAIN hcChecks THEN "nil" ELSE "NotFound",
                     NoCalls, IF id \in DOMAIN hcChecks THEN hcChecks[id] ELSE 0)
    /\ opSeq' = 1 - opSeq
    /\ UNCHANGED <<now, ctxDone, fwVars, smVars, hcVars>>

ListChecks ==
    /\ ~Crashed
    /\ hcMu = 0
    /\ last' = OpRet("ListChecks", "", "nil", NoCalls, Cardinality(DOMAIN hcChecks))
    /\ opSeq' = 1 - opSeq
    /\ UNCHANGED <<now, ctxDone, fwVars, smVars, hcVars>>

\* AddCheck and RemoveCheck take Checker.mu for the whole call.
AddCheckLocked(callerID, type) == hcMu = 0 /\ AddCheck(callerID, type)

RemoveCheckLocked(id) == hcMu = 0 /\ RemoveCheck(id)

\* Start takes Checker.mu for its running flag and again to start the loops.
HcStartLocked == hcMu = 0 /\ HcStart

Min(a, b) == IF a < b THEN a ELSE b

\* performCheck of every check in ptrs, one after the other (they serialise on
\* the checker's mutex); reach: the checks whose target answers.
RECURSIVE PerformAll(_, _, _)
PerformAll(objs, ptrs, reach) ==
    IF ptrs = {} THEN objs
    ELSE LET p == CHOOSE x \in ptrs : TRUE
             err == Probe(objs[p].Type, p \in reach)
         IN PerformAll(IF err = "unknown" THEN objs
                       ELSE [objs EXCEPT ![p] = PerformUpdate(objs[p], err)],
                       ptrs \ {p}, reach)

\* The callback goroutines the performChecks of PerformAll launch, in the
\* order of PerformAll.
RECURSIVE LaunchedAll(_, _, _)
LaunchedAll(objs, ptrs, reach) ==
    IF ptrs = {} THEN <<>>
    ELSE LET p == CHOOSE x \in ptrs : TRUE
             err == Probe(objs[p].Type, p \in reach)
         IN (IF err # "unknown" /\ objs[p].callback
             THEN <<[ptr |-> p, status |-> PerformUpdate(objs[p], err).Status]>>
             ELSE <<>>) \o LaunchedAll(objs, ptrs \ {p}, reach)

\* One probe interval of the running checker elapses: the ticker of every
\* live checkLoop fires once.  up: the services whose health endpoint answers
\* 2xx during the interval; reach: the checks whose target answers.
ProbeInterval(up, reach) ==
    LET live == {p \in 1..Len(chk) : hcLoops[p] + hcBgLoops[p] > 0}
    IN /\ ~Crashed
       /\ hcRunning
       /\ \A p \in live : chk[p].Failures < MaxFailures
       /\ chk' = PerformAll(chk, live, reach)
       /\ cbPending' = cbPending \o LaunchedAll(chk, live, reach)
       /\ Len(cbPending') <= MaxCallbacks
       /\ hcStreak' = [p \in 1..MaxChkObjs |->
                         IF p \in live /\ Probe(chk[p].Type, p \in reach) # "unknown"
                         THEN chk'[p].Failures ELSE hcStreak[p]]
       /\ probes' = [p \in 1..MaxSvcObjs |->
                       IF p <= Len(svc) /\ svc[p].HealthCheck
                       THEN IF p \in up
                            THEN [ok |-> Min(probes[p].ok + 1, MaxProbes), fail |-> 0]
                            ELSE [ok |-> probes[p].ok,
                                  fail |-> Min(probes[p].fail + 1, MaxProbes)]
                       ELSE probes[p]]
       /\ last' = Op("ProbeInterval", "", "nil", NoCalls)
       /\ opSeq' = 1 - opSeq
       /\ UNCHANGED <<now, ctxDone, fwVars, smVars, hcBgLoops, hcChecks, hcLoops, hcRunning, hcStopClosed,
                      hcCrashed, hcMu, hcProbe>>

\* The service a check was created for by the code that wires the checker
\* to the registry.
ServiceOfCheck(checkID) == IF checkID = "c1" THEN "s1" ELSE ""

\* The status the wired callback reports for a check status.
ServiceStatusOf(status) == IF status = "passing" THEN "healthy" ELSE "unhealthy"

\* The k-th launched callback goroutine is scheduled: the wired callback calls
\* UpdateServiceStatus for the check's service.  The go statement orders the
\* goroutines neither with each other nor with the loop that launched them.
CallbackRun(k) ==
    /\ ~Crashed
    /\ k \in 1..Len(cbPending)
    /\ LET cb == cbPending[k]
           id == ServiceOfCheck(chk[cb.ptr].ID)
       IN IF id \notin DOMAIN smServices
          THEN /\ last' = OpRet("callback", id, "NotFound", NoCalls, cb.ptr)
               /\ UNCHANGED svc
          ELSE /\ svc' = UpdateStatus(svc, smServices[id], ServiceStatusOf(cb.status), now)
               /\ last' = OpRet("callback", id, "nil", NoCalls, cb.ptr)
    /\ cbPending' = RemoveAt(cbPending, k)
    /\ opSeq' = 1 - opSeq
    /\ UNCHANGED <<now, ctxDone, fwVars, lbVars, smLife, smServices, disc, lbStrategy, rrCounter,
                   chk, hcChecks, hcLoops, hcBgLoops, hcRunning, hcStopClosed, hcCrashed,
                   hcStreak, probes, hcMu, hcProbe>>

----------------------------------------------------------------------------
(* Specifications *)

vars == <<now, ctxDone, fwVars, smVars, hcVars, last, opSeq>>

Init ==
    /\ now = 0
    /\ fwRules = EmptyStore
    /\ fwRunning = FALSE
    /\ fwStopClosed = FALSE
    /\ fwLoops = 0
    /\ fwCrashed = FALSE
    /\ fwMu = MuFree
    /\ fwCall = [p \in Callers \cup {SyncProc} |-> Idle]
    /\ kernel = [e \in KEntries |-> 0]
    /\ svc = <<>>
    /\ smServices = EmptyStore
    /\ disc = [n \in ServiceNames |-> <<>>]
    /\ lbStrategy = "round_robin"
    /\ rrCounter = 0
    /\ lbList = <<>>
    /\ lbHist = <<>>
    /\ lcConn = [id \in CandIDs |-> 0]
    /\ lcPending = <<>>
    /\ rrPending = {}
    /\ smRunning = FALSE
    /\ smStopClosed = FALSE
    /\ smLoops = 0
    /\ smCrashed = FALSE
    /\ ctxDone = FALSE
    /\ chk = <<>>
    /\ hcChecks = EmptyStore
    /\ hcLoops = [p \in 1..MaxChkObjs |-> 0]
    /\ hcBgLoops = [p \in 1..MaxChkObjs |-> 0]
    /\ hcRunning = FALSE
    /\ hcStopClosed = FALSE
    /\ hcCrashed = FALSE
    /\ hcStreak = [p \in 1..MaxChkObjs |-> 0]
    /\ hcMu = 0
    /\ hcProbe = [p \in 1..MaxChkObjs |-> NoProbe]
    /\ probes = [p \in 1..MaxSvcObjs |-> [ok |-> 0, fail |-> 0]]
    /\ cbPending = <<>>
    /\ last = Op("none", "", "nil", NoCalls)
    /\ opSeq = 0

\* The rule store under API calls.
NextRules ==
    \/ \E in \in RuleInputs, id \in CallerIDs \cup {""}, ok \in BOOLEAN : AddRule(in, id, ok)
    \/ \E id \in RuleIDs, ok \in BOOLEAN : DeleteRule(id, ok)
    \/ \E failAt \in 0..Len(Chains) : Flush(failAt)
    \/ Tick

SpecRules == Init /\ [][NextRules]_vars

\* The rule manager's own operations alone: every backend call succeeds
\* unless the filter table lacks the entry to delete, nothing else touches
\* the filter table.
NextOwn ==
    \/ \E in \in RuleInputs, id \in CallerIDs \cup {""} : AddRule(in, id, TRUE)
    \/ \E id \in RuleIDs : DeleteRule(id, TRUE)

SpecOwn == Init /\ [][NextOwn]_vars

\* The started manager: API calls, drift of the filter table and the sync
\* loop.
NextSync ==
    \/ \E in \in RuleInputs, id \in CallerIDs \cup {""}, ok \in BOOLEAN : AddRule(in, id, ok)
    \/ \E id \in RuleIDs, ok \in BOOLEAN : DeleteRule(id, ok)
    \/ \E failed \in SUBSET RuleIDs : Sync(failed)
    \/ \E polFailAt \in 0..Len(Chains), cfgFailed \in SUBSET (1..Len(CfgRules)) :
          FwStart(polFailAt, cfgFailed)
    \/ \E e \in KEntries : ExternalAdd(e)
    \/ \E e \in KEntries : ExternalDelete(e)

SpecSync == Init /\ [][NextSync]_vars

\* The whole rule manager, life cycle included.
NextFW ==
    \/ \E in \in RuleInputs, id \in CallerIDs \cup {""}, ok \in BOOLEAN : AddRule(in, id, ok)
    \/ \E id \in RuleIDs, ok \in BOOLEAN : DeleteRule(id, ok)
    \/ \E failAt \in 0..Len(Chains) : Flush(failAt)
    \/ \E failed \in SUBSET RuleIDs : Sync(failed)
    \/ \E polFailAt \in 0..Len(Chains), cfgFailed \in SUBSET (1..Len(CfgRules)) :
          FwStart(polFailAt, cfgFailed)
    \/ FwStop
    \/ FwLoopExit
    \/ \E e \in KEntries : ExternalAdd(e)
    \/ \E e \in KEntries : ExternalDelete(e)
    \/ Tick

SpecFW == Init /\ [][NextFW]_vars

\* The service registry under API calls.
NextSM ==
    \/ \E n \in ServiceNames, id \in CallerServiceIDs \cup {""}, ok \in BOOLEAN :
          RegisterService(n, id, TRUE, ok)
    \/ \E id \in ServiceIDs, ok \in BOOLEAN : DeregisterService(id, ok)
    \/ Tick

SpecSM == Init /\ [][NextSM]_vars

\* Selection: registered instances change status and clients select.
NextSel ==
    \/ \E st \in Strategies : Configure(st)
    \/ \E n \in ServiceNames, id \in CallerServiceIDs \cup {""} :
          RegisterService(n, id, TRUE, TRUE)
    \/ \E id \in ServiceIDs, st \in ServiceStatuses : UpdateServiceStatus(id, st)
    \/ \E n \in ServiceNames : SelectService(n)

SpecSel == Init /\ [][NextSel]_vars

\* The started health checker: checks come and go, the loops probe their
\* targets.
NextHC ==
    \/ \E id \in CallerCheckIDs \cup {""}, t \in CheckTypes : AddCheck(id, t)
    \/ \E id \in CheckIDs : RemoveCheck(id)
    \/ HcStart
    \/ \E p \in 1..MaxChkObjs, r \in BOOLEAN : PerformCheck(p, r)

SpecHC == Init /\ [][NextHC]_vars

\* The whole health checker, life cycle and callbacks included.
NextChecker ==
    \/ \E id \in CallerCheckIDs \cup {""}, t \in CheckTypes : AddCheck(id, t)
    \/ \E id \in CheckIDs : RemoveCheck(id)
    \/ \E id \in CheckIDs : SetCallback(id)
    \/ HcStart
    \/ HcStop
    \/ \E p \in 1..MaxChkObjs : HcLoopExit(p)
    \/ \E p \in 1..MaxChkObjs : HcBgLoopExit(p)
    \/ \E p \in 1..MaxChkObjs, r \in BOOLEAN : PerformCheck(p, r)
    \/ Tick

SpecChecker == Init /\ [][NextChecker]_vars

\* The agent as it is wired: the API registers services and clients select
\* instances while the started health checker lets its intervals elapse.
NextE2E ==
    \/ \E n \in ServiceNames, id \in CallerServiceIDs \cup {""}, hc \in BOOLEAN,
          ok \in BOOLEAN : RegisterService(n, id, hc, ok)
    \/ HcStart
    \/ \E up \in SUBSET (1..MaxSvcObjs), reach \in SUBSET (1..MaxChkObjs) :
          ProbeInterval(up, reach)
    \/ \E n \in ServiceNames : SelectService(n)
    \/ Tick

SpecE2E == Init /\ [][NextE2E]_vars

\* The life cycle of the three managers: Start and Stop in any order, while
\* checks and services are added.
NextLife ==
    \/ \E polFailAt \in 0..1 : FwStart(polFailAt, {})
    \/ FwStop
    \/ SmStart
    \/ SmStop({})
    \/ HcStart
    \/ HcStop
    \/ \E id \in CallerCheckIDs : AddCheck(id, "http")
    \/ RegisterService("web", "s1", TRUE, TRUE)

SpecLife == Init /\ [][NextLife]_vars

\* Shutdown: the managers are started, checks are added, the loops tick, and
\* the context is cancelled or a manager is stopped.  A loop that may return
\* (its select has a ready done case) eventually does.
NextCancel ==
    \/ FwStart(0, {})
    \/ SmStart
    \/ HcStart
    \/ FwStop
    \/ SmStop({})
    \/ HcStop
    \/ \E id \in CallerCheckIDs : AddCheck(id, "http")
    \/ \E p \in 1..MaxChkObjs : PerformCheck(p, TRUE)
    \/ CtxCancel
    \/ FwLoopExit
    \/ SmLoopExit
    \/ \E p \in 1..MaxChkObjs : HcLoopExit(p)
    \/ \E p \in 1..MaxChkObjs : HcBgLoopExit(p)

SpecCancel ==
    /\ Init
    /\ [][NextCancel]_vars
    /\ WF_vars(FwLoopExit)
    /\ WF_vars(SmLoopExit)
    /\ \A p \in 1..MaxChkObjs : WF_vars(HcLoopExit(p))
    /\ \A p \in 1..MaxChkObjs : WF_vars(HcBgLoopExit(p))

\* Round robin under calls with one candidate list.
NextRR ==
    \/ \E n \in 1..MaxCands : LBSetup(n)
    \/ RRSelect
    \/ \E t \in 1..MaxLBCalls : RRReturn(t)

SpecRR == Init /\ [][NextRR]_vars

\* Least outstanding under calls and releases with one candidate list.
NextLC ==
    \/ \E n \in 1..MaxCands : LBSetup(n)
    \/ LCSelect
    \/ \E k \in 1..MaxInflight : LCCount(k)
    \/ \E id \in CandIDs : ReleaseConnection(id)

SpecLC == Init /\ [][NextLC]_vars

\* The running registry manager with its keep-alive loop: services come and
\* go and the ticker fires; the backend's Register may fail on a tick.
NextKeep ==
    \/ \E n \in ServiceNames, id \in CallerServiceIDs \cup {""} :
          RegisterService(n, id, TRUE, TRUE)
    \/ \E id \in ServiceIDs : DeregisterService(id, TRUE)
    \/ SmStart
    \/ \E failing \in SUBSET ServiceIDs : SyncDiscovery(failing)

SpecKeep == Init /\ [][NextKeep]_vars

\* The registry with the static backend: services are registered and
\* deregistered, the keep-alive loop ticks, clients discover and select.
NextDisc ==
    \/ \E n \in ServiceNames, id \in CallerServiceIDs \cup {""} :
          RegisterService(n, id, TRUE, TRUE)
    \/ \E id \in ServiceIDs : DeregisterService(id, TRUE)
    \/ SmStart
    \/ SyncDiscovery({})
    \/ \E id \in ServiceIDs : UpdateServiceStatus(id, "healthy")
    \/ \E n \in ServiceNames : DiscoverService(n)
    \/ \E n \in ServiceNames : SelectService(n)

SpecDisc == Init /\ [][NextDisc]_vars

\* Stopping the rule manager and the registry manager while their loops
\* tick: Stop returns when it has closed stopChan, the loop returns when it
\* next sees it closed.
NextStop ==
    \/ FwStart(0, {})
    \/ Sync({})
    \/ FwStop
    \/ FwLoopExit
    \/ \E n \in ServiceNames, id \in CallerServiceIDs \cup {""} :
          RegisterService(n, id, TRUE, TRUE)
    \/ SmStart
    \/ SyncDiscovery({})
    \/ \E failing \in SUBSET ServiceIDs : SmStop(failing)
    \/ SmLoopExit

SpecStop == Init /\ [][NextStop]_vars

\* The rule manager started and stopped while rules are added, deleted and
\* flushed through it.
NextFwStop ==
    \/ \E in \in RuleInputs, id \in CallerIDs \cup {""} : AddRule(in, id, TRUE)
    \/ \E id \in RuleIDs, ok \in BOOLEAN : DeleteRule(id, ok)
    \/ \E failAt \in 0..Len(Chains) : Flush(failAt)
    \/ FwStart(0, {})
    \/ FwStop
    \/ FwLoopExit

SpecFwStop == Init /\ [][NextFwStop]_vars

\* Manager.Start entered while no call holds Manager.mu: Start takes the lock
\* for its running flag and loadConfigRules takes it again for every AddRule.
FwStartUnlocked == fwMu = MuFree /\ FwStart(0, {})

\* The AddRule calls made concurrently: the configured rule under a caller's
\* ID and another rule without an ID.
ConcAdds ==
    {[rule |-> CfgRules[1], id |-> x] : x \in CallerIDs} \cup
    {[rule |-> r, id |-> ""] : r \in {y \in RuleInputs : y.Chain = "OUTPUT"}}

\* Callers and the syncLoop inside the rule manager at the same time, each
\* call taken one step at a time.
NextConc ==
    \/ \E p \in Callers, x \in ConcAdds : CallBegin(p, "AddRule", x.rule, x.id)
    \/ \E p \in Callers, x \in ConcAdds :
          CallBegin(p, "DeleteRule", CfgRules[1],
                    IF x.id = "" THEN generateRuleID(0) ELSE x.id)
    \/ \E p \in Callers : CallBegin(p, "Flush", CfgRules[1], "")
    \/ \E p \in Callers : CallLock(p)
    \/ \E p \in Callers, ok \in BOOLEAN, failAt \in 0..1 : CallBackend(p, ok, failAt)
    \/ \E p \in Callers : CallStore(p)
    \/ \E p \in Callers : CallReturn(p)
    \/ FwStartUnlocked
    \/ SyncBegin
    \/ SyncLock
    \/ SyncList
    \/ \E failed \in SUBSET RuleIDs : SyncApply(failed)
    \/ SyncReturn

SpecConc == Init /\ [][NextConc]_vars

\* Status updates of registered, unknown and deregistered services as time
\* passes.
NextStatus ==
    \/ \E id \in CallerServiceIDs \cup {""} : RegisterService("web", id, TRUE, TRUE)
    \/ \E id \in CallerServiceIDs : DeregisterService(id, TRUE)
    \/ \E id \in ServiceIDs, st \in {"healthy", "unhealthy"} : UpdateServiceStatus(id, st)
    \/ Tick

SpecStatus == Init /\ [][NextStatus]_vars

\* The sync loop and the probe loops with failing iterations: backend calls
\* of a pass fail, probes fail, the rule manager is stopped.
NextLoop ==
    \/ FwStart(0, {})
    \/ \E failed \in SUBSET RuleIDs : Sync(failed)
    \/ SyncListError
    \/ FwStop
    \/ FwLoopExit
    \/ \E id \in CallerCheckIDs : AddCheck(id, "http")
    \/ HcStart
    \/ \E p \in 1..MaxChkObjs, r \in BOOLEAN : PerformCheck(p, r)

SpecLoop == Init /\ [][NextLoop]_vars

\* The checker wired to the registry: the check c1 of the service s1 with
\* its status callback, probes and the callback goroutines they launch.
NextCb ==
    \/ RegisterService("web", "s1", TRUE, TRUE)
    \/ \E id \in CallerCheckIDs : AddCheck(id, "http")
    \/ \E id \in CallerCheckIDs : SetCallback(id)
    \/ \E id \in CallerCheckIDs : RemoveCheck(id)
    \/ HcStart
    \/ \E p \in 1..MaxChkObjs, r \in BOOLEAN : PerformCheck(p, r)
    \/ \E k \in 1..MaxCallbacks : CallbackRun(k)

SpecCb == Init /\ [][NextCb]_vars

\* The checker's life cycle with checks added before and after Start.
NextProbe ==
    \/ \E id \in CallerCheckIDs \cup {""} : AddCheck(id, "http")
    \/ HcStart
    \/ HcStop
    \/ \E p \in 1..MaxChkObjs : HcLoopExit(p)
    \/ \E p \in 1..MaxChkObjs : HcBgLoopExit(p)
    \/ \E p \in 1..MaxChkObjs, r \in BOOLEAN : PerformCheck(p, r)

SpecProbe == Init /\ [][NextProbe]_vars

\* Checks of known and unknown types are added, probed, and added again as
\* the objects they are.
NextReadd ==
    \/ \E id \in CallerCheckIDs \cup {""}, t \in {"http", "icmp"} : AddCheck(id, t)
    \/ \E p \in 1..MaxChkObjs : AddCheckAgain(p)
    \/ HcStart
    \/ \E p \in 1..MaxChkObjs, r \in BOOLEAN : PerformCheck(p, r)

SpecReadd == Init /\ [][NextReadd]_vars

\* Probes in flight while other checks are probed and the checker's API is
\* called; the target of the first check may fail to answer.
NextHcConc ==
    \/ \E id \in CallerCheckIDs \cup {""} : AddCheckLocked(id, "http")
    \/ \E id \in CallerCheckIDs : RemoveCheckLocked(id)
    \/ \E id \in CallerCheckIDs : GetCheck(id)
    \/ ListChecks
    \/ HcStartLocked
    \/ \E p \in 1..MaxChkObjs : ProbeStamp(p)
    \/ \E p \in 1..MaxChkObjs : \E r \in (IF p = 1 THEN BOOLEAN ELSE {TRUE}) : ProbeReturn(p, r)
    \/ \E p \in 1..MaxChkObjs : ProbeUpdate(p)

SpecHcConc == Init /\ [][NextHcConc]_vars

----------------------------------------------------------------------------
(* Claims about the rule manager *)

OpStep(op) == opSeq' # opSeq /\ last'.op = op

\* C1: ListRules() is exactly the rules added successfully and not deleted
\* since, with pairwise distinct IDs.  Step by step: a successful AddRule adds
\* its rule to the listed set and removes nothing, a successful DeleteRule
\* removes the rule with that ID and nothing else, a failed call changes
\* nothing.
C1_ListRulesExact ==
    [][(OpStep("AddRule") \/ OpStep("DeleteRule")) =>
          /\ ListRules' =
                IF last'.err # "nil" THEN ListRules
                ELSE IF last'.op = "AddRule" THEN ListRules \cup {fwRules'[last'.id]}
                ELSE {r \in ListRules : r.ID # last'.id}
          /\ \A r1, r2 \in ListRules' : r1.ID = r2.ID => r1 = r2]_vars

\* C2: when the backend's AddRule call fails, Manager.AddRule returns an error
\* and the store is the same as before the call.
C2_FailedAddRuleNotStored ==
    [][(OpStep("AddRule") /\ \E c \in last'.calls : c.fn = "AddRule" /\ ~c.ok) =>
          /\ last'.err = "BackendError"
          /\ fwRules' = fwRules
          /\ ListRules' = ListRules]_vars

C2_Witness ==
    /\ last.op = "AddRule"
    /\ last.err = "BackendError"
    /\ last.id \notin DOMAIN fwRules
    /\ fwRules # EmptyStore

\* C10: DeleteRule of an unknown ID returns not-found, calls no backend and
\* changes nothing; for a stored ID it calls the backend's DeleteRule once, and
\* the record leaves the store exactly when that call succeeded (the entry then
\* having left the filter table), the other records staying as they were.
C10_DeleteRule ==
    [][OpStep("DeleteRule") =>
          LET id == last'.id IN
          IF id \notin DOMAIN fwRules
          THEN /\ last'.err = "NotFound"
               /\ last'.calls = {}
               /\ fwRules' = fwRules
               /\ kernel' = kernel
          ELSE /\ \E ok \in BOOLEAN : last'.calls = {Call("DeleteRule", id, ok)}
               /\ last'.err # "NotFound"
               /\ (id \notin DOMAIN fwRules') <=> (\A c \in last'.calls : c.ok)
               /\ (id \notin DOMAIN fwRules') =>
                     kernel'[KEntry(fwRules[id])] = kernel[KEntry(fwRules[id])] - 1
               /\ (id \in DOMAIN fwRules') => fwRules' = fwRules /\ kernel' = kernel
               /\ \A j \in DOMAIN fwRules \ {id} :
                     j \in DOMAIN fwRules' /\ fwRules'[j] = fwRules[j]]_vars

\* A backend DeleteRule call has failed: the rule is still stored and still in
\* the filter table.
C10_Witness ==
    /\ last.op = "DeleteRule"
    /\ last.err = "BackendError"
    /\ last.id \in DOMAIN fwRules
    /\ kernel[KEntry(fwRules[last.id])] > 0

\* C6 as stated: the second of two sync passes in a row finds every desired
\* rule present and issues no backend AddRule call.
C6_SecondPassIssuesNoAddRule ==
    (last.op = "sync" /\ last.repeatClean) => last.calls = {}

\* C6, amended: the second of two sync passes in a row creates no duplicate
\* entry (a pass adds an entry only where none was), and after a first pass
\* without failed calls it leaves the filter table as it is.
C6_SecondPassNoDuplicates ==
    [][(OpStep("sync") /\ last'.repeat) =>
          /\ \A e \in KEntries : kernel'[e] # kernel[e] => kernel[e] = 0 /\ kernel'[e] = 1
          /\ last'.repeatClean => kernel' = kernel]_vars

C6_Witness ==
    /\ last.op = "sync"
    /\ last.repeatClean
    /\ CleanCalls(last)
    /\ Cardinality(last.calls) >= 2

\* The filter-table entry e is structurally equal to the rule.
Matches(rule, e) == \E q \in RuleInputs : rulesEqual(rule, q) /\ KEntry(q) = e

\* A rule has a structurally equal entry in the filter table.
Applied(rule, kern) == \E e \in KEntries : Matches(rule, e) /\ kern[e] > 0

\* C7: after a sync pass without a failed backend call every stored rule has a
\* structurally equal entry in the filter table, and each rule that had none
\* before the pass got exactly one backend AddRule call.
C7_DriftRepair ==
    [][(OpStep("sync") /\ CleanCalls(last')) =>
          /\ \A id \in DOMAIN fwRules' : Applied(fwRules'[id], kernel')
          /\ \A id \in DOMAIN fwRules :
                ~Applied(fwRules[id], kernel) =>
                    Cardinality({c \in last'.calls : c.fn = "AddRule" /\ c.key = id}) = 1]_vars

C7_Witness ==
    /\ last.op = "sync"
    /\ CleanCalls(last)
    /\ last.repaired >= 2
    /\ \A id \in DOMAIN fwRules : Applied(fwRules[id], kernel)

\* C8: a sync pass makes no backend call but AddRule, removes no entry of the
\* filter table and leaves the store as it is.
C8_SyncOnlyAdds ==
    [][OpStep("sync") =>
          /\ fwRules' = fwRules
          /\ \A e \in KEntries : kernel'[e] >= kernel[e]
          /\ \A c \in last'.calls : c.fn = "AddRule"]_vars

C8_Witness ==
    /\ last.op = "sync"
    /\ fwRules # EmptyStore
    /\ \E e \in KEntries :
          /\ kernel[e] > 0
          /\ \A id \in DOMAIN fwRules : ~Matches(fwRules[id], e)

\* C11: when the backend's DeleteRule call fails, Manager.DeleteRule returns
\* an error and keeps the record: GetRule and ListRules return the rule as
\* before, and the next sync pass still issues its backend AddRule call.
C11_FailedDeleteKeepsRecord ==
    [][/\ (OpStep("DeleteRule") /\ \E c \in last'.calls : c.fn = "DeleteRule" /\ ~c.ok) =>
             /\ last'.err = "BackendError"
             /\ last'.id \in DOMAIN fwRules'
             /\ fwRules'[last'.id] = fwRules[last'.id]
             /\ ListRules' = ListRules
       /\ (OpStep("sync") /\ last.op = "DeleteRule" /\ last.err = "BackendError") =>
             \E c \in last'.calls : c.fn = "AddRule" /\ c.key = last.id]_vars

\* A DeleteRule has failed on a rule whose entry had already gone from the
\* filter table, with the sync loop running: the rule is still stored.
C11_FailedDeleteWitness ==
    /\ last.op = "DeleteRule"
    /\ last.err = "BackendError"
    /\ last.id \in DOMAIN fwRules
    /\ kernel[KEntry(fwRules[last.id])] = 0
    /\ fwLoops > 0

----------------------------------------------------------------------------
(* Claims about the service registry *)

\* The services ListServices returns.
ListServices == {svc[smServices[i]] : i \in DOMAIN smServices}

Instances(d, name) == {d[name][i] : i \in 1..Len(d[name])}

C9_FailedRegisterNotStored ==
    [][(OpStep("RegisterService") /\ \E c \in last'.calls : c.fn = "Register" /\ ~c.ok) =>
          /\ last'.err = "BackendError"
          /\ smServices' = smServices
          /\ ListServices' = ListServices
          /\ \A id \in DOMAIN smServices : svc'[smServices'[id]] = svc[smServices[id]]]_vars

C9_Witness ==
    /\ last.op = "RegisterService"
    /\ last.err = "BackendError"
    /\ last.id \notin DOMAIN smServices
    /\ smServices # EmptyStore

\* C12: DeregisterService of an unknown id returns not-found, calls no
\* backend and changes nothing; for a stored id it calls the backend's
\* Deregister once and the service leaves the store exactly when that call
\* succeeded, the store staying as it was when the call failed.
C12_DeregisterService ==
    [][OpStep("DeregisterService") =>
          LET id == last'.id IN
          IF id \notin DOMAIN smServices
          THEN /\ last'.err = "NotFound"
               /\ last'.calls = {}
               /\ smServices' = smServices
               /\ disc' = disc
          ELSE /\ \E ok \in BOOLEAN : last'.calls = {Call("Deregister", id, ok)}
               /\ (last'.err = "nil") <=> (\A c \in last'.calls : c.ok)
               /\ (\A c \in last'.calls : c.ok) => smServices' = StoreDelete(smServices, id)
               /\ (\E c \in last'.calls : ~c.ok) =>
                     /\ last'.err = "BackendError"
                     /\ smServices' = smServices
                     /\ ListServices' = ListServices]_vars

\* A backend Deregister has failed: the service is still stored, next to
\* another one.
C12_Witness ==
    /\ last.op = "DeregisterService"
    /\ last.err = "BackendError"
    /\ last.id \in DOMAIN smServices
    /\ Cardinality(DOMAIN smServices) >= 2

----------------------------------------------------------------------------
(* Claims about the health checker *)

----------------------------------------------------------------------------
(* Claims about the agent as a whole *)

Registered(p) == \E id \in DOMAIN smServices : smServices[id] = p

\* The registered instances of "web" that carry a health check.
WebChecked ==
    {p \in 1..Len(svc) : svc[p].Name = "web" /\ svc[p].HealthCheck /\ Registered(p)}

\* C5: end to end.  A registered service named "web" with a health check
\* whose endpoint succeeded in the last probe interval is Healthy, and
\* SelectService("web") then returns an instance of "web"; once its endpoint
\* has failed three probe intervals in a row it is Unhealthy, and when that
\* holds of every instance of "web" SelectService("web") fails with "no
\* healthy instances".
C5_EndToEnd ==
    /\ \A p \in WebChecked :
          /\ probes[p].ok >= 1 /\ probes[p].fail = 0 =>
                /\ svc[p].Status = "healthy"
                /\ last.op = "SelectService" /\ last.id = "web" =>
                      /\ last.err = "nil"
                      /\ svc[last.ret].Name = "web"
          /\ probes[p].fail >= 3 => svc[p].Status = "unhealthy"
    /\ /\ WebChecked # {}
       /\ \A p \in 1..Len(svc) : svc[p].Name = "web" => p \in WebChecked /\ probes[p].fail >= 3
       /\ last.op = "SelectService" /\ last.id = "web"
       => last.err = "no healthy instances found"

\* The instances SelectService(name) chooses among.
Candidates(name) ==
    LET healthyServices == HealthyOf(svc, StaticDiscover(disc, name))
    IN {healthyServices[i] : i \in 1..Len(healthyServices)}

\* C13: a registered service with a health check is Unknown as long as no
\* probe of it has completed, and a registered service without a health check
\* is treated as Healthy at once: it is among the instances SelectService on
\* its name chooses from, and a SelectService on its name succeeds.
C13_NoCheckTreatedHealthy ==
    \A p \in 1..Len(svc) :
       Registered(p) =>
          /\ (svc[p].HealthCheck /\ probes[p].ok = 0 /\ probes[p].fail = 0) =>
                svc[p].Status = "unknown"
          /\ ~svc[p].HealthCheck =>
                /\ p \in Candidates(svc[p].Name)
                /\ (last.op = "SelectService" /\ last.id = svc[p].Name) => last.err = "nil"

----------------------------------------------------------------------------
(* Claims about the life cycle *)

\* Everything but the record of the last operation.
progVars == <<now, ctxDone, fwVars, smVars, hcVars>>

\* C14: for the rule manager, the service registry manager and the health
\* checker alike, Start while running returns "already running" and starts no
\* further loop, and Stop while not running (a second Stop after a successful
\* one included) returns "not running"; neither changes anything.
C14_StartStopRejected ==
    [][/\ (OpStep("Start") /\ fwRunning) =>
             last'.err = "AlreadyRunning" /\ fwLoops' = fwLoops /\ progVars' = progVars
       /\ (OpStep("SmStart") /\ smRunning) =>
             last'.err = "AlreadyRunning" /\ smLoops' = smLoops /\ progVars' = progVars
       /\ (OpStep("HcStart") /\ hcRunning) =>
             last'.err = "AlreadyRunning" /\ hcLoops' = hcLoops /\ progVars' = progVars
       /\ (OpStep("Stop") /\ ~fwRunning) =>
             last'.err = "NotRunning" /\ progVars' = progVars
       /\ (OpStep("SmStop") /\ ~smRunning) =>
             last'.err = "NotRunning" /\ progVars' = progVars
       /\ (OpStep("HcStop") /\ ~hcRunning) =>
             last'.err = "NotRunning" /\ progVars' = progVars]_vars

\* All three managers have been started and stopped, and a second Stop has
\* just been rejected.
C14_Witness ==
    /\ last.op \in {"Stop", "SmStop", "HcStop"}
    /\ last.err = "NotRunning"
    /\ fwStopClosed /\ smStopClosed /\ hcStopClosed
    /\ fwLoops > 0 /\ smLoops > 0
    /\ \E p \in 1..Len(chk) : hcBgLoops[p] > 0

NoCheckLoops == \A p \in 1..MaxChkObjs : hcLoops[p] = 0 /\ hcBgLoops[p] = 0

\* C15: once the context is cancelled, or a manager's stop channel is closed,
\* every background loop of that manager returns: the rule sync loop, the
\* keep-alive loop and every probe loop, those of checks added after the
\* checker was started included.
C15_LoopsExit ==
    /\ (ctxDone \/ fwStopClosed) ~> (fwLoops = 0 \/ Crashed)
    /\ (ctxDone \/ smStopClosed) ~> (smLoops = 0 \/ Crashed)
    /\ (ctxDone \/ hcStopClosed) ~> (NoCheckLoops \/ Crashed)

----------------------------------------------------------------------------
(* Claims about the load balancers *)

\* The position of a candidate in the candidate list.
Pos(id) == CHOOSE i \in 1..Len(lbList) : lbList[i] = id

Times(id, h) == Cardinality({i \in 1..Len(h) : h[i] = id})

\* C16: round robin over a stable list of N candidates.  One counter counts
\* the calls; each call returns the candidate after the one returned to the
\* call before it, in list order, wrapping around; so any N consecutive calls
\* return each candidate exactly once, and 2N calls (6 calls over three
\* candidates) return each candidate exactly twice.
C16_RoundRobin ==
    LET N == Len(lbList)
        M == Len(lbHist)
    IN N > 0 =>
          /\ rrCounter = M
          /\ \A i \in 1..(M - 1) : Pos(lbHist[i + 1]) = (Pos(lbHist[i]) % N) + 1
          /\ \A i \in 1..(M - N + 1) :
                \A k \in 1..N :
                   Cardinality({j \in i..(i + N - 1) : lbHist[j] = lbList[k]}) = 1
          /\ M = 2 * N => \A k \in 1..N : Times(lbList[k], lbHist) = 2

\* Six calls over three candidates.
C16_Witness ==
    /\ Len(lbList) = 3
    /\ Len(lbHist) = 6
    /\ \A k \in 1..3 : Times(lbList[k], lbHist) = 2

\* C17: least outstanding.  Select returns the first candidate, in list
\* order, whose count is the minimum, and that candidate's count is then
\* incremented by one; a release decrements the named service's count (a
\* count of zero stays zero).  With counts 2, 0, 1 the second candidate is
\* returned, with counts 1, 1, 1 the first.
C17_LeastConn ==
    [][/\ (OpStep("LCSelect") /\ Len(lbList) > 0) =>
             LET i == last'.ret
             IN /\ i \in 1..Len(lbList)
                /\ last'.id = lbList[i]
                /\ \A j \in 1..Len(lbList) : lcConn[lbList[i]] <= lcConn[lbList[j]]
                /\ \A j \in 1..(i - 1) : lcConn[lbList[j]] > lcConn[lbList[i]]
                /\ lcPending' = Append(lcPending, lbList[i])
                /\ (Len(lbList) = 3 /\ lcConn[lbList[1]] = 2 /\ lcConn[lbList[2]] = 0
                      /\ lcConn[lbList[3]] = 1) => i = 2
                /\ (Len(lbList) = 3 /\ \A j \in 1..3 : lcConn[lbList[j]] = 1) => i = 1
       /\ OpStep("LCCount") =>
             lcConn' = [lcConn EXCEPT ![last'.id] = @ + 1]
       /\ OpStep("ReleaseConnection") =>
             lcConn' = [lcConn EXCEPT ![last'.id] = IF @ > 0 THEN @ - 1 ELSE 0]]_vars

\* A tie of three candidates at count 1 has gone to the first.
C17_Witness ==
    /\ last.op = "LCSelect"
    /\ Len(lbList) = 3
    /\ \A j \in 1..3 : lcConn[lbList[j]] = 1
    /\ last.ret = 1

----------------------------------------------------------------------------
(* Further claims about the rule manager *)

\* C25: a successful Flush leaves ListRules empty and every chain the
\* backend clears without entries; when the backend's Flush fails,
\* Manager.Flush returns an error and the store is as it was.
C25_Flush ==
    [][OpStep("Flush") =>
          IF \A c \in last'.calls : c.ok
          THEN /\ last'.err = "nil"
               /\ ListRules' = {}
               /\ fwRules' = EmptyStore
               /\ \A e \in KEntries : kernel'[e] = 0
          ELSE /\ last'.err = "BackendError"
               /\ fwRules' = fwRules
               /\ ListRules' = ListRules]_vars

\* The backend's Flush has failed after clearing a chain that held an entry
\* of a stored rule: the rule is still listed.
C25_Witness ==
    /\ last.op = "Flush"
    /\ last.err = "BackendError"
    /\ \E id \in DOMAIN fwRules : kernel[KEntry(fwRules[id])] = 0
    /\ \E e \in KEntries : kernel[e] > 0

\* C27: Stop of the rule manager calls nothing of the backend and leaves the
\* store and the filter table as they are; an entry leaves the filter table
\* only through Flush or DeleteRule.
C27_StopLeavesRules ==
    [][/\ OpStep("Stop") =>
             /\ last'.calls = {}
             /\ fwRules' = fwRules
             /\ kernel' = kernel
       /\ (\E e \in KEntries : kernel'[e] < kernel[e]) =>
             (OpStep("Flush") \/ OpStep("DeleteRule"))]_vars

\* The running manager has been stopped with a stored rule applied in the
\* filter table.
C27_Witness ==
    /\ last.op = "Stop"
    /\ last.err = "nil"
    /\ \E id \in DOMAIN fwRules : kernel[KEntry(fwRules[id])] > 0

----------------------------------------------------------------------------
(* Claims about the registry manager's Stop and keep-alive *)

CalledFor(o, fn) == {c.key : c \in {x \in o.calls : x.fn = fn}}

\* C21: Stop of a running registry manager calls the backend's Deregister
\* once for each stored service, whether or not some of the calls fail, and
\* returns success.
C21_StopDeregistersAll ==
    [][(OpStep("SmStop") /\ smRunning) =>
          /\ \A c \in last'.calls : c.fn = "Deregister"
          /\ CalledFor(last', "Deregister") = DOMAIN smServices
          /\ last'.err = "nil"]_vars

\* The manager has been stopped and not started again.
FwStopped == fwStopClosed /\ ~fwRunning

SmStopped == smStopClosed /\ ~smRunning

\* C22: once Stop has returned, no iteration of the manager's loop runs: the
\* sync loop makes no backend call and applies no rule, the keep-alive loop
\* registers no service.
C22_NoIterationAfterStop ==
    [][/\ FwStopped => ~OpStep("sync")
       /\ SmStopped => ~OpStep("syncDiscovery")]_vars

\* C26: UpdateServiceStatus of a stored id sets the status and the last-seen
\* time of that service and changes no other service; for an id that is not
\* stored it returns not found and changes neither the store nor any
\* service nor the backend.
C26_UpdateServiceStatus ==
    [][OpStep("UpdateServiceStatus") =>
          LET id == last'.id IN
          IF id \in DOMAIN smServices
          THEN /\ last'.err = "nil"
               /\ svc'[smServices[id]].Status = last'.ret
               /\ svc'[smServices[id]].LastSeen = now
               /\ \A p \in 1..Len(svc) : p # smServices[id] => svc'[p] = svc[p]
               /\ Len(svc') = Len(svc)
               /\ smServices' = smServices
               /\ disc' = disc
          ELSE /\ last'.err = "NotFound"
               /\ svc' = svc
               /\ smServices' = smServices
               /\ disc' = disc]_vars

\* A status update of one of two stored instances of a name has succeeded
\* at the latest time, the other instance keeping another status.
C26_Witness ==
    /\ last.op = "UpdateServiceStatus"
    /\ last.err = "nil"
    /\ \E p \in 1..Len(svc) :
          /\ p # smServices[last.id]
          /\ svc[p].Name = svc[smServices[last.id]].Name
          /\ svc[p].ID \in DOMAIN smServices
          /\ svc[p].Status # svc[smServices[last.id]].Status
    /\ svc[smServices[last.id]].LastSeen = MaxClock

\* C23: on every keep-alive tick the backend's Register is called once for
\* each stored service, the failing calls not keeping the others from being
\* made; the loop stays alive; a service whose Register failed on one tick
\* is submitted again on the next if it is still stored; the store and the
\* services' statuses are not changed.
C23_KeepAlive ==
    [][OpStep("syncDiscovery") =>
          /\ \A c \in last'.calls : c.fn = "Register"
          /\ CalledFor(last', "Register") = DOMAIN smServices
          /\ \A id \in DOMAIN smServices :
                LET ptr == smServices[id]
                    n == svc[ptr].Name
                    count(d) == Cardinality({i \in 1..Len(d[n]) : d[n][i] = ptr})
                IN Call("Register", id, TRUE) \in last'.calls => count(disc') = count(disc) + 1
          /\ last.op = "syncDiscovery" =>
                \A c \in last.calls : (~c.ok /\ c.key \in DOMAIN smServices) =>
                                          c.key \in CalledFor(last', "Register")
          /\ smLoops' = smLoops
          /\ smServices' = smServices
          /\ svc' = svc]_vars

\* A tick on which the Register of one stored service failed and that of
\* another succeeded.
C23_Witness ==
    /\ last.op = "syncDiscovery"
    /\ \E c \in last.calls : ~c.ok
    /\ \E c \in last.calls : c.ok
    /\ smRunning

\* C24: a failure inside an iteration does not end the loop.  After a sync
\* pass in which ListRules or an AddRule failed the syncLoop is alive as
\* before, after a failed probe the check's loops are, so the next tick
\* runs the next iteration; the syncLoop returns only once its stop channel
\* is closed or its context cancelled.
C24_FailureKeepsLoop ==
    [][/\ (OpStep("sync") /\ (last'.err # "nil" \/ \E c \in last'.calls : ~c.ok)) =>
             /\ fwLoops' = fwLoops
             /\ fwLoops' > 0
       /\ (OpStep("performCheck") /\ last'.err # "nil") =>
             /\ hcLoops' = hcLoops
             /\ hcBgLoops' = hcBgLoops
             /\ hcLoops'[last'.ret] + hcBgLoops'[last'.ret] > 0
       /\ fwLoops' < fwLoops => (fwStopClosed \/ ctxDone)]_vars

\* A pass whose ListRules failed has just run on a running manager, after a
\* check of the running checker became critical on its third failed probe
\* in a row; the sync loop and the check's loop are alive.
C24_Witness ==
    /\ last.op = "sync"
    /\ last.err = "ListError"
    /\ fwLoops > 0
    /\ fwRunning
    /\ \E p \in 1..Len(chk) : chk[p].Status = "critical" /\ hcLoops[p] > 0 /\ hcRunning

----------------------------------------------------------------------------
(* Claims about the checker's callbacks and probe loops *)

\* C18: the status callbacks of one check are applied in probe order.  When
\* a callback has just run and none is left to run, every probe's callback
\* has run, and the status of the check's service is the one that
\* corresponds to the check's status: healthy for passing, unhealthy for
\* warning and critical.
C18_CallbacksInProbeOrder ==
    (/\ last.op = "callback"
     /\ last.err = "nil"
     /\ cbPending = <<>>
     /\ Len(chk) = 1) =>
        svc[smServices[last.id]].Status = ServiceStatusOf(chk[last.ret].Status)

\* The check object with the given ID whose map entry has been deleted by
\* RemoveCheck and not written again.
Removed(p) == p \in 1..Len(chk) /\ chk[p].ID \notin DOMAIN hcChecks

\* C19: RemoveCheck of a registered id ends the check's probe loop: no
\* performCheck runs for the removed check and no callback is launched for
\* it; RemoveCheck of an unknown id returns not found and changes nothing.
C19_RemoveCheckStopsProbes ==
    [][/\ \A p \in 1..MaxChkObjs :
             Removed(p) =>
                /\ ~(OpStep("performCheck") /\ last'.ret = p)
                /\ \A k \in 1..Len(cbPending') :
                      cbPending'[k].ptr = p => \E j \in 1..Len(cbPending) : cbPending[j].ptr = p
       /\ (OpStep("RemoveCheck") /\ last'.id \notin DOMAIN hcChecks) =>
             /\ last'.err = "NotFound"
             /\ UNCHANGED hcVars]_vars

\* Every registered check of a running checker has a live loop.
Probed ==
    (hcRunning /\ ~hcCrashed) =>
       \A id \in DOMAIN hcChecks : hcLoops[hcChecks[id]] + hcBgLoops[hcChecks[id]] >= 1

\* C20: every registered check is probed while the checker runs.  AddCheck
\* leaves the check passing and, on a running checker, starts its loop;
\* Start starts the loop of every check registered before it; and each
\* registered check keeps a live loop, whose ticker probes it once per
\* interval, for as long as the checker runs.
C20_RegisteredChecksProbed ==
    [][/\ OpStep("AddCheck") =>
             /\ chk'[last'.ret].Status = "passing"
             /\ hcRunning => hcBgLoops'[last'.ret] = hcBgLoops[last'.ret] + 1
       /\ (OpStep("HcStart") /\ last'.err = "nil") =>
             \A id \in DOMAIN hcChecks :
                hcLoops'[hcChecks[id]] = hcLoops[hcChecks[id]] + 1
       /\ Probed']_vars

----------------------------------------------------------------------------
(* Claims about concurrent calls of the rule manager *)

\* What a call leaves behind when it runs alone on the store and the filter
\* table it found when it took the lock.
CallEffect(c) ==
    IF c.op = "AddRule"
    THEN {[rules |-> AddRuleStore(c.pre.rules, c.rule, c.ok),
           kernel |-> IF c.ok THEN IPTAddRule(c.rule, c.pre.kernel) ELSE c.pre.kernel]}
    ELSE IF c.op = "DeleteRule"
    THEN IF c.id \in DOMAIN c.pre.rules /\ c.ok
         THEN {[rules |-> StoreDelete(c.pre.rules, c.id),
                kernel |-> IPTDeleteRule(c.pre.rules[c.id], c.pre.kernel, TRUE).kernel]}
         ELSE {c.pre}
    ELSE IF c.ok
         THEN {[rules |-> EmptyStore, kernel |-> IPTFlush(c.pre.kernel, 0).kernel]}
         ELSE {[rules |-> c.pre.rules, kernel |-> IPTFlush(c.pre.kernel, k).kernel]
                  : k \in 1..Len(Chains)}

\* C28: concurrent AddRule, DeleteRule, Flush and sync passes are
\* linearizable: a call that is about to unlock and return has left exactly
\* the store and the filter table it would have left running alone from the
\* moment it took the lock, and every rule a sync pass (re-)applies to the
\* backend is a rule of the store at that moment, never one that a returned
\* DeleteRule or Flush has removed.
C28_Linearizable ==
    /\ \A p \in Callers :
          (fwCall[p] # Idle /\ fwCall[p].pc = "unlock")
             => [rules |-> fwRules, kernel |-> kernel] \in CallEffect(fwCall[p])
    /\ (fwCall[SyncProc] # Idle /\ fwCall[SyncProc].pc \in {"apply", "unlock"})
          => \A r \in fwCall[SyncProc].todo :
                r.ID \in DOMAIN fwRules /\ fwRules[r.ID] = r

\* Two AddRule calls with different IDs were in flight together, the second
\* of them is about to return, and both rules are stored; no Start has put a
\* rule there.
C28_Witness ==
    /\ ~fwRunning
    /\ \E p \in Callers :
          /\ fwCall[p] # Idle
          /\ fwCall[p].op = "AddRule" /\ fwCall[p].pc = "unlock"
          /\ fwCall[p].ok /\ fwCall[p].conc
          /\ fwCall[p].id \notin DOMAIN fwCall[p].pre.rules
          /\ Cardinality(DOMAIN fwCall[p].pre.rules) = 1
          /\ Cardinality(DOMAIN fwRules) = 2

----------------------------------------------------------------------------
(* Claims about concurrent probes *)

\* C29: while a probe of one check is in flight the checker's lock is not
\* held, and nothing that needs the lock waits for the probe: the state update
\* of another check whose probe has returned, the start of another check's
\* probe, and AddCheck, RemoveCheck, GetCheck and ListChecks can all take
\* their step.
C29_ProbesConcurrent ==
    \A p \in 1..MaxChkObjs :
       hcProbe[p].pc = "probing" =>
          /\ hcMu = 0
          /\ \A q \in (1..MaxChkObjs) \ {p} :
                /\ hcProbe[q].pc = "update" => ENABLED ProbeUpdate(q)
                /\ (/\ q \in 1..Len(chk)
                    /\ hcLoops[q] + hcBgLoops[q] > 0
                    /\ hcProbe[q].pc = "idle"
                    /\ chk[q].Failures < MaxFailures) => ENABLED ProbeStamp(q)
          /\ \A id \in CheckIDs : ENABLED GetCheck(id) /\ ENABLED RemoveCheckLocked(id)
          /\ ENABLED ListChecks
          /\ Len(chk) < MaxChkObjs => ENABLED AddCheckLocked("", "http")

\* A probe is still in flight after another check was probed and updated, and
\* a RemoveCheck has just returned.
C29_Witness ==
    /\ last.op = "RemoveCheck"
    /\ last.err = "nil"
    /\ \E p \in 1..MaxChkObjs : hcProbe[p].pc = "probing" /\ hcProbe[p].over

----------------------------------------------------------------------------
(* Claims about reconciliation with a backend that lists nothing *)

\* C30: with a backend whose ListRules returns the empty list and no error,
\* every sync pass returns nil, has called the backend's AddRule once for each
\* rule of the store and for nothing else, whether or not those calls
\* succeeded, and leaves the store as it was.
C30_AlwaysReapply ==
    [][OpStep("sync") =>
          /\ last'.err = "nil"
          /\ \A c \in last'.calls : c.fn = "AddRule"
          /\ CalledFor(last', "AddRule") = DOMAIN fwRules
          /\ Cardinality(last'.calls) = Cardinality(DOMAIN fwRules)
          /\ fwRules' = fwRules]_vars

\* A pass that follows another pass re-applied both stored rules although
\* their entries were already in the filter table, and one of the calls
\* failed.
C30_Witness ==
    /\ last.op = "sync"
    /\ last.repeat
    /\ Cardinality(DOMAIN fwRules) = 2
    /\ Cardinality(last.calls) = 2
    /\ \E c \in last.calls : ~c.ok
    /\ \A id \in DOMAIN fwRules : kernel[KEntry(fwRules[id])] > 0

----------------------------------------------------------------------------
(* Claims about the static discovery backend *)

\* The IDs of the services in a list of *Service.
IDsOf(list) == {svc[list[i]].ID : i \in 1..Len(list)}

\* C31: after DeregisterService(id) has returned successfully, DiscoverService
\* and SelectService return no service with that id.  Every Register here
\* succeeds and stores its service, so an id that is not in the manager's
\* store is one whose last DeregisterService returned successfully: the
\* services a call returns all have stored ids.
C31_DeregisteredNotDiscovered ==
    [][/\ OpStep("DiscoverService") => IDsOf(last'.ret) \subseteq DOMAIN smServices
       /\ (OpStep("SelectService") /\ last'.err = "nil")
             => svc[last'.ret].ID \in DOMAIN smServices]_vars

\* C32: the list Discover returns for a name holds each service ID at most
\* once.
C32_DiscoverNoDuplicates ==
    \A n \in ServiceNames :
       \A i, j \in 1..Len(disc[n]) : i # j => svc[disc[n][i]].ID # svc[disc[n][j]].ID

----------------------------------------------------------------------------
(* Claims about restarting a manager *)

\* C33: no sequence of Start and Stop calls crashes the process, and a
\* manager that is running (its last Start succeeded, no Stop has followed,
\* the context is not cancelled) has a live loop to run the next tick's
\* iteration.
C33_RestartSafe ==
    /\ ~Crashed
    /\ fwRunning => fwLoops >= 1
    /\ smRunning => smLoops >= 1

\* C34: a Start of the rule manager that returns the error of a failed
\* SetDefaultPolicy leaves the manager not running and starts no sync loop;
\* the Start that follows it is not rejected as already running, the Stop
\* that follows it is rejected as not running.
C34_FailedStartNotRunning ==
    [][/\ (OpStep("Start") /\ last'.err = "BackendError") =>
             ~fwRunning' /\ fwLoops' = fwLoops
       /\ (OpStep("Start") /\ last.op = "Start" /\ last.err = "BackendError") =>
             last'.err # "AlreadyRunning"
       /\ (OpStep("Stop") /\ last.op = "Start" /\ last.err = "BackendError") =>
             last'.err = "NotRunning"]_vars

----------------------------------------------------------------------------
(* Claims about the checks' status and loops *)

\* C35: the status of every registered check agrees with its counter of
\* consecutive failures: passing iff 0, warning iff 1 or 2, critical iff 3 or
\* more.
C35_StatusMatchesFailures ==
    \A id \in DOMAIN hcChecks :
       LET c == chk[hcChecks[id]]
       IN /\ c.Status = "passing" <=> c.Failures = 0
          /\ c.Status = "warning" <=> c.Failures \in {1, 2}
          /\ c.Status = "critical" <=> c.Failures >= 3

\* The live checkLoop goroutines of the Check objects in ptrs.
RECURSIVE SumLoops(_)
SumLoops(ptrs) ==
    IF ptrs = {} THEN 0
    ELSE LET p == CHOOSE x \in ptrs : TRUE
         IN hcLoops[p] + hcBgLoops[p] + SumLoops(ptrs \ {p})

LoopsOfID(id) == SumLoops({p \in 1..Len(chk) : chk[p].ID = id})

\* C36: at most one probe loop is alive per check ID.
C36_OneLoopPerCheck == \A id \in CheckIDs : LoopsOfID(id) <= 1

----------------------------------------------------------------------------
(* Further claims about the least-outstanding balancer *)

\* C37: the choice and the increment of a Select are one atomic step: the
\* service whose count a call increments has the minimum count among the
\* candidates at that moment, and the call raises that one count by one and
\* touches no other.
C37_SelectAtomic ==
    [][OpStep("LCCount") =>
          /\ \A j \in 1..Len(lbList) : lcConn[last'.id] <= lcConn[lbList[j]]
          /\ lcConn' = [lcConn EXCEPT ![last'.id] = @ + 1]]_vars

\* C38: no outstanding-request count is negative; ReleaseConnection takes
\* one off a positive count and leaves a count of zero, and every other
\* count, as it is.
C38_CountsNonNegative ==
    [][/\ \A id \in CandIDs : lcConn'[id] >= 0
       /\ OpStep("ReleaseConnection") =>
             /\ lcConn[last'.id] > 0 => lcConn' = [lcConn EXCEPT ![last'.id] = @ - 1]
             /\ lcConn[last'.id] = 0 => lcConn' = lcConn]_vars

\* A release found its count at zero while a Select that has chosen the same
\* service has not yet counted, and left it at zero.
C38_Witness ==
    /\ last.op = "ReleaseConnection"
    /\ lcConn[last.id] = 0
    /\ \E k \in 1..Len(lcPending) : lcPending[k] = last.id
    /\ \E id \in CandIDs : lcConn[id] > 0

----------------------------------------------------------------------------
(* Claims about drift created by the rule manager itself *)

\* C39: after any sequence of AddRule and DeleteRule calls every rule of the
\* store has its entry in the filter table, and every entry of the filter
\* table (each one applied by the manager and not deleted since) belongs to
\* a rule of the store.
C39_NoOwnDrift ==
    /\ \A id \in DOMAIN fwRules : kernel[KEntry(fwRules[id])] > 0
    /\ \A e \in KEntries :
          kernel[e] > 0 => \E id \in DOMAIN fwRules : KEntry(fwRules[id]) = e

============================================================================
